---- MODULE Spec2Model ----
(***************************************************************************)
(* The symbol resolution engine of services/symbol_resolver.py:           *)
(* construction of the name -> ticker index, text normalisation, the      *)
(* scored matcher, the external search fallback and the resolution        *)
(* pipeline.  Strings are sequences of one-character strings, so that     *)
(* case folding, trimming, splitting and the regular expressions of the   *)
(* source are computed and not assumed.                                   *)
(***************************************************************************)
EXTENDS Integers, Sequences, FiniteSets, TLC

(***************************************************************************)
(* Characters and the str methods the resolver uses.  A character is a    *)
(* code point of U+0000..U+00FF, written as a one-character string; the   *)
(* three code points outside that range that str.upper() and str.lower()  *)
(* produce from it are written by their names.                            *)
(***************************************************************************)
\* the letters str.lower() changes, and what it changes them to
UpperChars ==
  <<"A","B","C","D","E","F","G","H","I","J","K","L","M",
    "N","O","P","Q","R","S","T","U","V","W","X","Y","Z",
    "À","Á","Â","Ã","Ä","Å","Æ","Ç","È","É","Ê","Ë","Ì",
    "Í","Î","Ï","Ð","Ñ","Ò","Ó","Ô","Õ","Ö","Ø","Ù","Ú",
    "Û","Ü","Ý","Þ">>

LowerChars ==
  <<"a","b","c","d","e","f","g","h","i","j","k","l","m",
    "n","o","p","q","r","s","t","u","v","w","x","y","z",
    "à","á","â","ã","ä","å","æ","ç","è","é","ê","ë","ì",
    "í","î","ï","ð","ñ","ò","ó","ô","õ","ö","ø","ù","ú",
    "û","ü","ý","þ">>

\* GREEK CAPITAL LETTER MU, GREEK SMALL LETTER MU and LATIN CAPITAL LETTER Y
\* WITH DIAERESIS
CapitalMu ==
  "U+039C"

SmallMu ==
  "U+03BC"

CapitalYDiaeresis ==
  "U+0178"

\* str.isspace(), the class str.strip(), str.split() and the pattern \s use
Whitespace ==
  {"\t", "\n", "", "\f", "\r", "", "", "", "", " ", "", " "}

IsSpace(c) ==
  c \in Whitespace

\* the letters without a counterpart of the other case in U+0000..U+00FF
OtherLetters ==
  {"ª", "µ", "º", "ß", "ÿ", CapitalMu, SmallMu, CapitalYDiaeresis}

Letters ==
  {UpperChars[i] : i \in 1..Len(UpperChars)} \cup {LowerChars[i] : i \in 1..Len(LowerChars)}
  \cup OtherLetters

\* str.isalpha()
IsAlpha(c) ==
  c \in Letters

ToLower ==
  [c \in {UpperChars[i] : i \in 1..Len(UpperChars)} |->
     LowerChars[CHOOSE i \in 1..Len(UpperChars) : UpperChars[i] = c]]

ToUpper ==
  [c \in {LowerChars[i] : i \in 1..Len(LowerChars)} |->
     UpperChars[CHOOSE i \in 1..Len(LowerChars) : LowerChars[i] = c]]

\* str.lower() of one character
LowerChar(c) ==
  IF c \in DOMAIN ToLower THEN ToLower[c]
  ELSE IF c = CapitalMu THEN SmallMu
  ELSE IF c = CapitalYDiaeresis THEN "ÿ"
  ELSE c

\* str.upper() of one character: a string, since the sharp s becomes two letters
UpperChar(c) ==
  IF c \in DOMAIN ToUpper THEN <<ToUpper[c]>>
  ELSE IF c = "ß" THEN <<"S", "S">>
  ELSE IF c = "µ" \/ c = SmallMu THEN <<CapitalMu>>
  ELSE IF c = "ÿ" THEN <<CapitalYDiaeresis>>
  ELSE <<c>>

\* str.title() of one character that starts a word
TitleChar(c) ==
  IF c = "ß" THEN <<"S", "s">> ELSE UpperChar(c)

\* str.lower()
RECURSIVE Lower(_)
Lower(s) ==
  IF s = << >> THEN << >> ELSE <<LowerChar(Head(s))>> \o Lower(Tail(s))

\* str.upper()
RECURSIVE Upper(_)
Upper(s) ==
  IF s = << >> THEN << >> ELSE UpperChar(Head(s)) \o Upper(Tail(s))

\* s[lo..hi] (1-based, inclusive), empty when hi < lo
Slice(s, lo, hi) ==
  IF hi < lo THEN << >> ELSE SubSeq(s, lo, hi)

\* str.strip()
Strip(s) ==
  IF \A i \in 1..Len(s) : IsSpace(s[i]) THEN << >>
  ELSE Slice(s, CHOOSE i \in 1..Len(s) :
                  ~IsSpace(s[i]) /\ \A j \in 1..(i - 1) : IsSpace(s[j]),
                CHOOSE i \in 1..Len(s) :
                  ~IsSpace(s[i]) /\ \A j \in (i + 1)..Len(s) : IsSpace(s[j]))

\* str.startswith(p) at offset i (1-based): s[i..] begins with p
MatchAt(s, i, p) ==
  /\ i + Len(p) - 1 <= Len(s)
  /\ \A k \in 1..Len(p) : s[i + k - 1] = p[k]

StartsWith(s, p) ==
  MatchAt(s, 1, p)

EndsWith(s, p) ==
  /\ Len(p) <= Len(s)
  /\ MatchAt(s, Len(s) - Len(p) + 1, p)

\* p in s (substring test)
Contains(s, p) ==
  \E i \in 1..(Len(s) - Len(p) + 1) : MatchAt(s, i, p)

\* str.split(): the maximal runs of non-whitespace, in order
RECURSIVE SplitFrom(_, _, _)
SplitFrom(s, i, cur) ==
  IF i > Len(s) THEN (IF cur = << >> THEN << >> ELSE <<cur>>)
  ELSE IF IsSpace(s[i])
       THEN (IF cur = << >> THEN << >> ELSE <<cur>>) \o SplitFrom(s, i + 1, << >>)
       ELSE SplitFrom(s, i + 1, Append(cur, s[i]))

Split(s) ==
  SplitFrom(s, 1, << >>)

\* sep.join(words)
RECURSIVE Join(_, _)
Join(words, sep) ==
  IF words = << >> THEN << >>
  ELSE IF Len(words) = 1 THEN words[1]
  ELSE words[1] \o sep \o Join(Tail(words), sep)

\* number of whitespace characters of s starting at position i (the greedy \s+)
RECURSIVE SpaceRun(_, _)
SpaceRun(s, i) ==
  IF i <= Len(s) /\ IsSpace(s[i]) THEN 1 + SpaceRun(s, i + 1) ELSE 0

(***************************************************************************)
(* The regular expressions of the source.  A legal-suffix alternative is  *)
(* a literal word with an optional trailing period (dot = TRUE for         *)
(* `word\.?`); alternatives are listed in the order of the pattern.        *)
(***************************************************************************)
Alt(w, d) ==
  [word |-> w, dot |-> d]

\* (ltd\.?|limited|private|pvt\.?|corp\.?|corporation|company|co\.?)
NormalizeSuffixes ==
  << Alt(<<"l","t","d">>, TRUE),
     Alt(<<"l","i","m","i","t","e","d">>, FALSE),
     Alt(<<"p","r","i","v","a","t","e">>, FALSE),
     Alt(<<"p","v","t">>, TRUE),
     Alt(<<"c","o","r","p">>, TRUE),
     Alt(<<"c","o","r","p","o","r","a","t","i","o","n">>, FALSE),
     Alt(<<"c","o","m","p","a","n","y">>, FALSE),
     Alt(<<"c","o">>, TRUE) >>

\* (limited|ltd\.?|private|pvt\.?|corporation|corp\.?|company|co\.?)
LoaderSuffixes ==
  << Alt(<<"l","i","m","i","t","e","d">>, FALSE),
     Alt(<<"l","t","d">>, TRUE),
     Alt(<<"p","r","i","v","a","t","e">>, FALSE),
     Alt(<<"p","v","t">>, TRUE),
     Alt(<<"c","o","r","p","o","r","a","t","i","o","n">>, FALSE),
     Alt(<<"c","o","r","p">>, TRUE),
     Alt(<<"c","o","m","p","a","n","y">>, FALSE),
     Alt(<<"c","o">>, TRUE) >>

\* (the\s+|dr\.?\s+|shri\s+|sri\s+)
LoaderPrefixes ==
  << Alt(<<"t","h","e">>, FALSE),
     Alt(<<"d","r">>, TRUE),
     Alt(<<"s","h","r","i">>, FALSE),
     Alt(<<"s","r","i">>, FALSE) >>

\* The tail `(\s|$)` (atEndOnly = FALSE) or `$` (atEndOnly = TRUE) tried at
\* position j: the position after the match, or 0 when it does not match.
\* `$` matches at the end of the string and before a newline that ends it.
TailEnd(s, j, atEndOnly) ==
  IF ~atEndOnly /\ j <= Len(s) /\ IsSpace(s[j]) THEN j + 1
  ELSE IF j = Len(s) + 1 \/ (j = Len(s) /\ s[j] = "\n") THEN j
  ELSE 0

\* One alternative followed by the tail, tried at position j; the optional
\* period is greedy: taken first, given up when the tail then fails.
AltEnd(s, j, alt, atEndOnly) ==
  IF ~MatchAt(Lower(s), j, alt.word) THEN 0
  ELSE IF /\ alt.dot
          /\ j + Len(alt.word) <= Len(s)
          /\ s[j + Len(alt.word)] = "."
          /\ TailEnd(s, j + Len(alt.word) + 1, atEndOnly) > 0
       THEN TailEnd(s, j + Len(alt.word) + 1, atEndOnly)
       ELSE TailEnd(s, j + Len(alt.word), atEndOnly)

\* `\s+(alt1|alt2|...)tail` tried at position i: the position after the
\* match of the first alternative that succeeds, or 0.
RECURSIVE FirstAltEnd(_, _, _, _, _)
FirstAltEnd(s, j, alts, n, atEndOnly) ==
  IF n > Len(alts) THEN 0
  ELSE IF AltEnd(s, j, alts[n], atEndOnly) > 0 THEN AltEnd(s, j, alts[n], atEndOnly)
  ELSE FirstAltEnd(s, j, alts, n + 1, atEndOnly)

SuffixMatchEnd(s, i, alts, atEndOnly) ==
  IF SpaceRun(s, i) = 0 THEN 0
  ELSE FirstAltEnd(s, i + SpaceRun(s, i), alts, 1, atEndOnly)

\* re.sub(r'\s+(ltd\.?|...|co\.?)(\s|$)', '', s): every non-overlapping
\* match, leftmost first, is deleted.
RECURSIVE SubSuffixTokens(_, _)
SubSuffixTokens(s, i) ==
  IF i > Len(s) THEN << >>
  ELSE IF SuffixMatchEnd(s, i, NormalizeSuffixes, FALSE) > 0
       THEN SubSuffixTokens(s, SuffixMatchEnd(s, i, NormalizeSuffixes, FALSE))
       ELSE <<s[i]>> \o SubSuffixTokens(s, i + 1)

PunctChars ==
  {".", ",", "&"}

SpaceChars ==
  Whitespace

\* re.sub(r'[.,&]+', ' ', s) and re.sub(r'\s+', ' ', s): every maximal run
\* of characters of the class becomes one space.
RECURSIVE SubRuns(_, _, _)
SubRuns(s, i, class) ==
  IF i > Len(s) THEN << >>
  ELSE IF s[i] \in class
       THEN (IF i > 1 /\ s[i - 1] \in class THEN << >> ELSE <<" ">>)
            \o SubRuns(s, i + 1, class)
       ELSE <<s[i]>> \o SubRuns(s, i + 1, class)

\* SymbolResolver.normalize_input
\* (lines 142-147, innermost first: lower and strip, the suffix words, the
\* punctuation, the whitespace, strip)
normalize_input(query) ==
  Strip(SubRuns(SubRuns(SubSuffixTokens(Strip(Lower(query)), 1), 1, PunctChars),
                1, SpaceChars))

\* the name without the match of the loader's suffix pattern that starts at
\* position first
DeleteMatch(name, first) ==
  Slice(name, 1, first - 1)
  \o Slice(name, SuffixMatchEnd(name, first, LoaderSuffixes, TRUE), Len(name))

\* re.sub(r'\s+(limited|...|co\.?)$', '', name): the one match that ends
\* at the end of the name, found at its leftmost starting position.
StripLegalSuffix(name) ==
  IF \A i \in 1..Len(name) : SuffixMatchEnd(name, i, LoaderSuffixes, TRUE) = 0 THEN name
  ELSE DeleteMatch(name, CHOOSE i \in 1..Len(name) :
                           /\ SuffixMatchEnd(name, i, LoaderSuffixes, TRUE) > 0
                           /\ \A j \in 1..(i - 1) :
                                SuffixMatchEnd(name, j, LoaderSuffixes, TRUE) = 0)

\* one alternative `word\.?\s+` (or `word\s+`) tried at the start of name:
\* the number of characters matched, or 0
PrefixAltLen(name, alt) ==
  IF ~MatchAt(Lower(name), 1, alt.word) THEN 0
  ELSE IF /\ alt.dot
          /\ Len(alt.word) + 1 <= Len(name)
          /\ name[Len(alt.word) + 1] = "."
          /\ SpaceRun(name, Len(alt.word) + 2) > 0
       THEN Len(alt.word) + 1 + SpaceRun(name, Len(alt.word) + 2)
       ELSE IF SpaceRun(name, Len(alt.word) + 1) > 0
            THEN Len(alt.word) + SpaceRun(name, Len(alt.word) + 1)
            ELSE 0

RECURSIVE FirstPrefixLen(_, _)
FirstPrefixLen(name, n) ==
  IF n > Len(LoaderPrefixes) THEN 0
  ELSE IF PrefixAltLen(name, LoaderPrefixes[n]) > 0
       THEN PrefixAltLen(name, LoaderPrefixes[n])
       ELSE FirstPrefixLen(name, n + 1)

\* re.sub(r'^(the\s+|dr\.?\s+|shri\s+|sri\s+)', '', name)
StripHonorific(name) ==
  Slice(name, FirstPrefixLen(name, 1) + 1, Len(name))

(***************************************************************************)
(* Python floats.  A float is an IEEE 754 double, [neg, m, e] of value    *)
(* m * 2^e (negated when neg) with m odd, or Zero; every operation gives  *)
(* the double nearest to the exact result, ties to the even mantissa, as  *)
(* the hardware does.  The 53-bit mantissas do not fit a machine integer  *)
(* of TLC, so a natural number is the sequence of its digits in           *)
(* base 2^15, least significant first and without leading zeros.  The     *)
(* scores of the resolver stay far from the exponent limits of a double,  *)
(* so overflow and subnormal numbers are left out.                        *)
(***************************************************************************)
\* 2^0 .. 2^14: the powers of two below the base of the digits
PowersOfTwo ==
  <<1, 2, 4, 8, 16, 32, 64, 128, 256, 512, 1024, 2048, 4096, 8192, 16384>>

\* the number of bits of a digit
DigitBits ==
  Len(PowersOfTwo)

\* the base of the digits, 2^DigitBits
Base ==
  2 * PowersOfTwo[DigitBits]

\* the precision of a Python float (sys.float_info.mant_dig)
MantissaBits ==
  53

\* 2^n for n < DigitBits
Pow2(n) ==
  PowersOfTwo[n + 1]

\* the digits of a machine integer n >= 0
RECURSIVE NatOf(_)
NatOf(n) ==
  IF n = 0 THEN << >> ELSE <<n % Base>> \o NatOf(n \div Base)

\* the machine integer of digits (the value fits)
RECURSIVE IntOf(_)
IntOf(x) ==
  IF x = << >> THEN 0 ELSE x[1] + Base * IntOf(Tail(x))

RECURSIVE Trim(_)
Trim(x) ==
  IF x # << >> /\ x[Len(x)] = 0 THEN Trim(SubSeq(x, 1, Len(x) - 1)) ELSE x

\* x < y: the highest digit in which they differ is the smaller in x
NatLess(x, y) ==
  IF Len(x) # Len(y) THEN Len(x) < Len(y)
  ELSE \E i \in 1..Len(x) : x[i] < y[i] /\ \A j \in (i + 1)..Len(x) : x[j] = y[j]

\* the lowest digit of x and the digits above it
LowDigit(x) ==
  IF x = << >> THEN 0 ELSE x[1]

HighDigits(x) ==
  IF x = << >> THEN << >> ELSE Tail(x)

RECURSIVE NatAddCarry(_, _, _)
NatAddCarry(x, y, carry) ==
  IF x = << >> /\ y = << >> THEN NatOf(carry)
  ELSE <<(LowDigit(x) + LowDigit(y) + carry) % Base>>
       \o NatAddCarry(HighDigits(x), HighDigits(y),
                      (LowDigit(x) + LowDigit(y) + carry) \div Base)

NatAdd(x, y) ==
  NatAddCarry(x, y, 0)

\* x - y - borrow for x >= y + borrow
RECURSIVE NatSubBorrow(_, _, _)
NatSubBorrow(x, y, borrow) ==
  IF x = << >> THEN << >>
  ELSE <<(x[1] - LowDigit(y) - borrow + Base) % Base>>
       \o NatSubBorrow(Tail(x), HighDigits(y),
                       IF x[1] - LowDigit(y) - borrow < 0 THEN 1 ELSE 0)

NatSub(x, y) ==
  Trim(NatSubBorrow(x, y, 0))

\* x * k + carry for a digit k
RECURSIVE NatMulDigit(_, _, _)
NatMulDigit(x, k, carry) ==
  IF x = << >> THEN NatOf(carry)
  ELSE <<(x[1] * k + carry) % Base>> \o NatMulDigit(Tail(x), k, (x[1] * k + carry) \div Base)

RECURSIVE NatMulFrom(_, _, _)
NatMulFrom(x, y, i) ==
  IF i > Len(y) THEN << >>
  ELSE NatAdd(NatMulDigit(x, y[i], 0), <<0>> \o NatMulFrom(x, y, i + 1))

NatMul(x, y) ==
  Trim(NatMulFrom(x, y, 1))

\* x * 2^n
NatShl(x, n) ==
  IF x = << >> THEN << >>
  ELSE [i \in 1..(n \div DigitBits) |-> 0] \o Trim(NatMulDigit(x, Pow2(n % DigitBits), 0))

\* quotient and remainder of the digits x[1..i] by a digit k > 0, after a
\* remainder rem and the quotient digits q of the digits above them
RECURSIVE NatDivDigitFrom(_, _, _, _, _)
NatDivDigitFrom(x, i, k, rem, q) ==
  IF i = 0 THEN [q |-> q, r |-> rem]
  ELSE NatDivDigitFrom(x, i - 1, k, (rem * Base + x[i]) % k,
                       <<(rem * Base + x[i]) \div k>> \o q)

\* quotient and remainder of x by y > 0, one bit of the quotient at a time:
\* rem is what is left of x and q the bits found, before bit n
\* (the length of q is read at every bit so that q is a value, not a pending
\* computation, when the next bit is found)
RECURSIVE NatLongDiv(_, _, _, _)
NatLongDiv(rem, y, n, q) ==
  IF n < 0 \/ Len(q) < 0 THEN [q |-> q, r |-> rem]
  ELSE IF NatLess(rem, NatShl(y, n)) THEN NatLongDiv(rem, y, n - 1, NatAddCarry(q, q, 0))
  ELSE NatLongDiv(NatSub(rem, NatShl(y, n)), y, n - 1, NatAddCarry(q, q, 1))

\* floor(x / 2^n)
NatShr(x, n) ==
  IF n \div DigitBits >= Len(x) THEN << >>
  ELSE Trim(NatDivDigitFrom(SubSeq(x, n \div DigitBits + 1, Len(x)),
                            Len(x) - n \div DigitBits, Pow2(n % DigitBits), 0, << >>).q)

RECURSIVE IntBitLen(_)
IntBitLen(n) ==
  IF n = 0 THEN 0 ELSE 1 + IntBitLen(n \div 2)

\* the number of bits of x
BitLen(x) ==
  IF x = << >> THEN 0 ELSE DigitBits * (Len(x) - 1) + IntBitLen(x[Len(x)])

\* [q, r] with x = q * y + r and 0 <= r < y
DigitQuotient(d) ==
  [q |-> Trim(d.q), r |-> NatOf(d.r)]

NatDivMod(x, y) ==
  IF Len(y) = 1 THEN DigitQuotient(NatDivDigitFrom(x, Len(x), y[1], 0, << >>))
  ELSE NatLongDiv(x, y, BitLen(x) - BitLen(y), << >>)

RECURSIVE IntTrailingZeros(_)
IntTrailingZeros(n) ==
  IF n % 2 = 0 THEN 1 + IntTrailingZeros(n \div 2) ELSE 0

\* the number of zero bits at the low end of x # 0
RECURSIVE TrailingZeros(_)
TrailingZeros(x) ==
  IF x[1] = 0 THEN DigitBits + TrailingZeros(Tail(x)) ELSE IntTrailingZeros(x[1])

\* bit k of x, bit 0 the lowest
Bit(x, k) ==
  IF k \div DigitBits >= Len(x) THEN 0
  ELSE (x[k \div DigitBits + 1] \div Pow2(k % DigitBits)) % 2

\* the bits of x below bit k are all zero
LowBitsZero(x, k) ==
  /\ \A i \in 1..(k \div DigitBits) : i > Len(x) \/ x[i] = 0
  /\ k \div DigitBits >= Len(x) \/ x[k \div DigitBits + 1] % Pow2(k % DigitBits) = 0

Zero ==
  [neg |-> FALSE, m |-> << >>, e |-> 0]

\* the double of value n * 2^e, n of at most 53 bits
Double(neg, n, e) ==
  IF n = << >> THEN Zero
  ELSE [neg |-> neg, m |-> NatShr(n, TrailingZeros(n)), e |-> e + TrailingZeros(n)]

\* the double nearest to n * 2^e, ties to even; inexact says that the exact
\* value lies above n * 2^e by less than one unit of n
\* (the bits dropped are more than half a unit of the result when the highest
\* of them is set and a lower one, or the part left out of n, is not zero; they
\* are exactly half a unit when only the highest is set)
RoundsUp(n, drop, inexact) ==
  /\ Bit(n, drop - 1) = 1
  /\ inexact \/ ~LowBitsZero(n, drop - 1) \/ Bit(n, drop) = 1

DropBits(neg, n, e, inexact, drop) ==
  IF drop <= 0 THEN Double(neg, n, e)
  ELSE Double(neg,
              IF RoundsUp(n, drop, inexact) THEN NatAdd(NatShr(n, drop), <<1>>)
              ELSE NatShr(n, drop),
              e + drop)

RoundToDouble(neg, n, e, inexact) ==
  DropBits(neg, n, e, inexact, BitLen(n) - MantissaBits)

\* float(n) of an int n: exact, an int of the checker has fewer than 53 bits
Float(n) ==
  Double(n < 0, NatOf(IF n < 0 THEN -n ELSE n), 0)

\* the smaller of the exponents of x and y
MinExp(x, y) ==
  IF x.e < y.e THEN x.e ELSE y.e

\* |x| < |y|
MagnitudeLess(x, y) ==
  IF y.m = << >> THEN FALSE
  ELSE IF x.m = << >> THEN TRUE
  ELSE IF BitLen(x.m) + x.e # BitLen(y.m) + y.e THEN BitLen(x.m) + x.e < BitLen(y.m) + y.e
  ELSE NatLess(NatShl(x.m, x.e - MinExp(x, y)), NatShl(y.m, y.e - MinExp(x, y)))

\* x < y
FloatLess(x, y) ==
  IF x.neg # y.neg THEN x.neg
  ELSE IF x.neg THEN MagnitudeLess(y, x)
  ELSE MagnitudeLess(x, y)

\* x * y
FloatMul(x, y) ==
  IF x.m = << >> \/ y.m = << >> THEN Zero
  ELSE RoundToDouble(x.neg # y.neg, NatMul(x.m, y.m), x.e + y.e, FALSE)

\* x / y for y # 0: the quotient is taken to 55 bits or more before rounding
DivShift(x, y) ==
  IF MantissaBits + 2 + BitLen(y.m) - BitLen(x.m) > 0
  THEN MantissaBits + 2 + BitLen(y.m) - BitLen(x.m)
  ELSE 0

RoundQuotient(neg, d, e) ==
  RoundToDouble(neg, d.q, e, d.r # << >>)

FloatDiv(x, y) ==
  IF x.m = << >> THEN Zero
  ELSE RoundQuotient(x.neg # y.neg, NatDivMod(NatShl(x.m, DivShift(x, y)), y.m),
                     x.e - DivShift(x, y) - y.e)

\* x - y for the mantissas a of x and b of y at the common exponent e
SubAligned(x, y, a, b, e) ==
  IF x.neg # y.neg THEN RoundToDouble(x.neg, NatAdd(a, b), e, FALSE)
  ELSE IF NatLess(a, b) THEN RoundToDouble(~x.neg, NatSub(b, a), e, FALSE)
  ELSE RoundToDouble(x.neg, NatSub(a, b), e, FALSE)

\* x - y
FloatSub(x, y) ==
  IF y.m = << >> THEN x
  ELSE IF x.m = << >> THEN [y EXCEPT !.neg = ~y.neg]
  ELSE SubAligned(x, y, NatShl(x.m, x.e - MinExp(x, y)), NatShl(y.m, y.e - MinExp(x, y)),
                  MinExp(x, y))

\* the float a decimal literal n/d denotes: the double nearest to it
Literal(n, d) ==
  FloatDiv(Float(n), Float(d))

\* the integer nearest to x >= 0, ties to even: what the format '.0f' prints
RoundToInt(x) ==
  IF x.m = << >> THEN 0
  ELSE IF x.e >= 0 THEN IntOf(NatShl(x.m, x.e))
  ELSE IntOf(NatShr(x.m, -x.e)) + (IF RoundsUp(x.m, -x.e, FALSE) THEN 1 ELSE 0)

(***************************************************************************)
(* difflib.SequenceMatcher(None, a, b).ratio(): no junk function, and     *)
(* autojunk as difflib applies it by default.                             *)
(***************************************************************************)
\* length of the common run of a from i and b from j inside a[..ahi], b[..bhi]
RECURSIVE RunLen(_, _, _, _, _, _)
RunLen(a, b, i, j, ahi, bhi) ==
  IF i <= ahi /\ j <= bhi /\ a[i] = b[j]
  THEN 1 + RunLen(a, b, i + 1, j + 1, ahi, bhi)
  ELSE 0

\* SequenceMatcher.__chain_b, autojunk: in a b of 200 or more elements the
\* elements that occur more than len(b) // 100 + 1 times are popular and are
\* left out of the index of b
Popular(b) ==
  IF Len(b) < 200 THEN {}
  ELSE {b[j] : j \in {k \in 1..Len(b) :
                        Cardinality({l \in 1..Len(b) : b[l] = b[k]}) > Len(b) \div 100 + 1}}

\* length of the common run of a from i and b from j that the index of b
\* finds: it stops at a popular element of b
RECURSIVE IndexedRunLen(_, _, _, _, _, _, _)
IndexedRunLen(a, b, i, j, ahi, bhi, popular) ==
  IF i <= ahi /\ j <= bhi /\ a[i] = b[j] /\ b[j] \notin popular
  THEN 1 + IndexedRunLen(a, b, i + 1, j + 1, ahi, bhi, popular)
  ELSE 0

\* length of the common run of a and b that ends just before i and j
RECURSIVE RunLenBack(_, _, _, _, _, _)
RunLenBack(a, b, i, j, alo, blo) ==
  IF i > alo /\ j > blo /\ a[i - 1] = b[j - 1]
  THEN 1 + RunLenBack(a, b, i - 1, j - 1, alo, blo)
  ELSE 0

\* the blocks <<i, j, size>> that start at an indexed element of b
IndexedBlocks(a, b, alo, ahi, blo, bhi, popular) ==
  {<<c[1], c[2], IndexedRunLen(a, b, c[1], c[2], ahi, bhi, popular)>> :
     c \in {d \in (alo..ahi) \X (blo..bhi) :
              a[d[1]] = b[d[2]] /\ b[d[2]] \notin popular}}

\* the longest of the blocks, the earliest in a and then in b among the
\* longest; (alo, blo, 0) when there is none
LongestBlock(blocks, alo, blo) ==
  IF blocks = {} THEN <<alo, blo, 0>>
  ELSE CHOOSE m \in blocks :
         \A n \in blocks :
           \/ m[3] > n[3]
           \/ /\ m[3] = n[3]
              /\ \/ m[1] < n[1]
                 \/ m[1] = n[1] /\ m[2] <= n[2]

\* the block grown by back elements before it and forward elements after it
GrownBlock(best, back, forward) ==
  <<best[1] - back, best[2] - back, back + best[3] + forward>>

\* the block extended over the matching elements on both sides of it, the
\* popular ones included
ExtendedBlock(a, b, alo, ahi, blo, bhi, best) ==
  GrownBlock(best, RunLenBack(a, b, best[1], best[2], alo, blo),
             RunLen(a, b, best[1] + best[3], best[2] + best[3], ahi, bhi))

\* SequenceMatcher.find_longest_match on a[alo..ahi], b[blo..bhi] (1-based,
\* inclusive): the longest block the index of b finds; of those the one
\* starting earliest in a; of those the one starting earliest in b; (alo, blo,
\* 0) when there is none.  The block is then extended over the elements that
\* match on both sides, popular ones included.
find_longest_match(a, b, alo, ahi, blo, bhi) ==
  ExtendedBlock(a, b, alo, ahi, blo, bhi,
                LongestBlock(IndexedBlocks(a, b, alo, ahi, blo, bhi, Popular(b)), alo, blo))

\* total size of SequenceMatcher.get_matching_blocks on the two ranges
RECURSIVE MatchedSize(_, _, _, _, _, _)

\* the size of the block m and of the blocks matched on its left and right
AroundBlock(a, b, alo, ahi, blo, bhi, m) ==
  IF m[3] = 0 THEN 0
  ELSE m[3]
       + MatchedSize(a, b, alo, m[1] - 1, blo, m[2] - 1)
       + MatchedSize(a, b, m[1] + m[3], ahi, m[2] + m[3], bhi)

MatchedSize(a, b, alo, ahi, blo, bhi) ==
  IF alo > ahi \/ blo > bhi THEN 0
  ELSE AroundBlock(a, b, alo, ahi, blo, bhi, find_longest_match(a, b, alo, ahi, blo, bhi))

\* SymbolResolver.similarity, SequenceMatcher.ratio(): the float
\* 2.0 * matches / length, 1.0 when both strings are empty
\* difflib's _calculate_ratio: 2.0 * matches / length, 1.0 when length is 0
CalculateRatio(matches, length) ==
  IF length = 0 THEN Float(1)
  ELSE FloatDiv(FloatMul(Float(2), Float(matches)), Float(length))

\* SequenceMatcher(None, a, b).ratio()
Ratio(a, b) ==
  CalculateRatio(MatchedSize(a, b, 1, Len(a), 1, Len(b)), Len(a) + Len(b))

similarity(a, b) ==
  Ratio(Lower(a), Lower(b))

\* x > y on scores
ScoreGT(x, y) ==
  FloatLess(y, x)

(***************************************************************************)
(* Python dicts keep insertion order: a dict is a sequence of <<key,      *)
(* value>> pairs with distinct keys.  An Optional is None (the empty      *)
(* tuple) or Some(v) (the one-element tuple of its value).                *)
(***************************************************************************)
None ==
  << >>

Some(v) ==
  <<v>>

IsNone(o) ==
  o = << >>

Val(o) ==
  o[1]

Keys(d) ==
  {d[i][1] : i \in 1..Len(d)}

\* k in d
DictHas(d, k) ==
  \E i \in 1..Len(d) : d[i][1] = k

\* d[k]
DictGet(d, k) ==
  d[CHOOSE i \in 1..Len(d) : d[i][1] = k][2]

\* d[k] = v: an existing key keeps its position and takes the new value
DictSet(d, k, v) ==
  IF DictHas(d, k)
  THEN [i \in 1..Len(d) |-> IF d[i][1] = k THEN <<k, v>> ELSE d[i]]
  ELSE Append(d, <<k, v>>)

\* if k not in d: d[k] = v
DictSetIfAbsent(d, k, v) ==
  IF DictHas(d, k) THEN d ELSE Append(d, <<k, v>>)

\* the entries of e whose key is not a key of d, in the order of e
RECURSIVE NewEntries(_, _, _)
NewEntries(d, e, i) ==
  IF i > Len(e) THEN << >>
  ELSE (IF DictHas(d, e[i][1]) THEN << >> ELSE <<e[i]>>) \o NewEntries(d, e, i + 1)

\* the entries of d from position i on, each with the value e gives its key
\* when e has that key
RECURSIVE Overwritten(_, _, _)
Overwritten(d, e, i) ==
  IF i > Len(d) THEN << >>
  ELSE <<(IF DictHas(e, d[i][1]) THEN <<d[i][1], DictGet(e, d[i][1])>> ELSE d[i])>>
       \o Overwritten(d, e, i + 1)

\* d.update(e), e a dict: the keys of d keep their positions and take e's
\* values, the new keys of e follow in e's order
DictUpdate(d, e) ==
  Overwritten(d, e, 1) \o NewEntries(d, e, 1)

(***************************************************************************)
(* Index construction.                                                    *)
(***************************************************************************)
\* _load_global_stocks: the curated table
GlobalStocks ==
  << <<<<"a","p","p","l","e">>, <<"A","A","P","L">>>>,
     <<<<"m","i","c","r","o","s","o","f","t">>, <<"M","S","F","T">>>>,
     <<<<"g","o","o","g","l","e">>, <<"G","O","O","G","L">>>>,
     <<<<"a","l","p","h","a","b","e","t">>, <<"G","O","O","G","L">>>>,
     <<<<"a","m","a","z","o","n">>, <<"A","M","Z","N">>>>,
     <<<<"t","e","s","l","a">>, <<"T","S","L","A">>>>,
     <<<<"m","e","t","a">>, <<"M","E","T","A">>>>,
     <<<<"f","a","c","e","b","o","o","k">>, <<"M","E","T","A">>>>,
     <<<<"n","e","t","f","l","i","x">>, <<"N","F","L","X">>>>,
     <<<<"n","v","i","d","i","a">>, <<"N","V","D","A">>>>,
     <<<<"i","n","t","e","l">>, <<"I","N","T","C">>>>,
     <<<<"a","m","d">>, <<"A","M","D">>>>,
     <<<<"o","r","a","c","l","e">>, <<"O","R","C","L">>>>,
     <<<<"s","a","l","e","s","f","o","r","c","e">>, <<"C","R","M">>>>,
     <<<<"a","d","o","b","e">>, <<"A","D","B","E">>>>,
     <<<<"c","i","s","c","o">>, <<"C","S","C","O">>>>,
     <<<<"i","b","m">>, <<"I","B","M">>>>,
     <<<<"w","a","l","m","a","r","t">>, <<"W","M","T">>>>,
     <<<<"b","e","r","k","s","h","i","r","e"," ","h","a","t","h","a","w","a","y">>, <<"B","R","K","-","A">>>>,
     <<<<"b","e","r","k","s","h","i","r","e">>, <<"B","R","K","-","A">>>>,
     <<<<"j","o","h","n","s","o","n"," ","j","o","h","n","s","o","n">>, <<"J","N","J">>>>,
     <<<<"p","f","i","z","e","r">>, <<"P","F","E">>>>,
     <<<<"c","o","c","a"," ","c","o","l","a">>, <<"K","O">>>>,
     <<<<"p","e","p","s","i">>, <<"P","E","P">>>>,
     <<<<"v","i","s","a">>, <<"V">>>>,
     <<<<"m","a","s","t","e","r","c","a","r","d">>, <<"M","A">>>>,
     <<<<"d","i","s","n","e","y">>, <<"D","I","S">>>>,
     <<<<"n","i","k","e">>, <<"N","K","E">>>>,
     <<<<"m","c","d","o","n","a","l","d","s">>, <<"M","C","D">>>>,
     <<<<"s","t","a","r","b","u","c","k","s">>, <<"S","B","U","X">>>>,
     <<<<"b","o","e","i","n","g">>, <<"B","A">>>>,
     <<<<"c","a","t","e","r","p","i","l","l","a","r">>, <<"C","A","T">>>>,
     <<<<"3","m">>, <<"M","M","M">>>>,
     <<<<"g","e","n","e","r","a","l"," ","e","l","e","c","t","r","i","c">>, <<"G","E">>>>,
     <<<<"g","e">>, <<"G","E">>>>,
     <<<<"g","o","l","d","m","a","n"," ","s","a","c","h","s">>, <<"G","S">>>>,
     <<<<"j","p","m","o","r","g","a","n">>, <<"J","P","M">>>>,
     <<<<"j","p"," ","m","o","r","g","a","n">>, <<"J","P","M">>>>,
     <<<<"b","a","n","k"," ","o","f"," ","a","m","e","r","i","c","a">>, <<"B","A","C">>>>,
     <<<<"a","m","e","r","i","c","a","n"," ","e","x","p","r","e","s","s">>, <<"A","X","P">>>>,
     <<<<"a","m","e","x">>, <<"A","X","P">>>> >>

\* the acronym of line 68: first characters of the words that start with a letter
RECURSIVE Acronym(_)
Acronym(words) ==
  IF words = << >> THEN << >>
  ELSE (IF IsAlpha(words[1][1]) THEN <<words[1][1]>> ELSE << >>) \o Acronym(Tail(words))

\* line 39: the full company name is assigned unconditionally
InsertBaseName(m, company_name, ticker) ==
  DictSet(m, company_name, ticker)

\* lines 43-45: the suffix-stripped name is assigned when it differs from the
\* company name and is not empty
InsertSuffixStripped(m, company_name, clean_name, ticker) ==
  IF clean_name # company_name /\ clean_name # << >>
  THEN DictSet(m, clean_name, ticker)
  ELSE m

\* lines 48-50: the prefix-stripped name is inserted if absent and not empty
InsertPrefixStripped(m, clean_name, ticker) ==
  IF ~DictHas(m, clean_name) /\ clean_name # << >>
  THEN DictSet(m, clean_name, ticker)
  ELSE m

\* lines 53-64: the first two and the first three words, each if absent
InsertPartials(m, words, ticker) ==
  IF Len(words) >= 3
  THEN DictSetIfAbsent(DictSetIfAbsent(m, Join(SubSeq(words, 1, 2), <<" ">>), ticker),
                       Join(SubSeq(words, 1, 3), <<" ">>), ticker)
  ELSE IF Len(words) >= 2
  THEN DictSetIfAbsent(m, Join(SubSeq(words, 1, 2), <<" ">>), ticker)
  ELSE m

\* lines 66-70: the acronym of a multi-word name, if absent and of length >= 2
InsertAcronym(m, words, ticker) ==
  IF Len(words) > 1 /\ Len(Acronym(words)) >= 2
  THEN DictSetIfAbsent(m, Acronym(words), ticker)
  ELSE m

\* lines 38-70, the insertions in the order of the source: suffix_stripped is
\* clean_name after line 42, prefix_stripped is clean_name after line 47
InsertVariants(m, company_name, suffix_stripped, prefix_stripped, ticker) ==
  InsertAcronym(
    InsertPartials(
      InsertPrefixStripped(
        InsertSuffixStripped(InsertBaseName(m, company_name, ticker),
                             company_name, suffix_stripped, ticker),
        prefix_stripped, ticker),
      Split(prefix_stripped), ticker),
    Split(prefix_stripped), ticker)

\* lines 38-70 for the company_name and the ticker of lines 34-35
InsertRow(m, company_name, ticker) ==
  InsertVariants(m, company_name, StripLegalSuffix(company_name),
                 StripHonorific(StripLegalSuffix(company_name)), ticker)

\* the body of the loop of _load_indian_stocks_from_csv for one row
ProcessRow(m, row) ==
  InsertRow(m, Strip(Lower(row.IssuerName)), Strip(row.SecurityId))

\* the whole loop over the rows of the dataset
RECURSIVE ProcessRows(_, _)
ProcessRows(m, rows) ==
  IF rows = << >> THEN m
  ELSE ProcessRows(ProcessRow(m, rows[1]), Tail(rows))

\* lines 134-137, `if d: combined.update(d)`: the test holds of a dict that
\* is not None and not empty
UpdateIfAny(combined, d) ==
  IF ~IsNone(d) /\ Val(d) # << >> THEN DictUpdate(combined, Val(d)) ELSE combined

\* fault: the two updates in the other order, so that the reference mapping
\* overrides the curated one
CombinedMapping_ReferenceWins(stock, global) ==
  UpdateIfAny(UpdateIfAny(<< >>, global), stock)

\* the combined mapping built by the stock_mapping property (lines 132-138)
\* from the two Optional dicts
CombinedMapping(stock, global) ==
  UpdateIfAny(UpdateIfAny(<< >>, stock), global)

(***************************************************************************)
(* The scored matcher of resolve_symbol (lines 188-233).                  *)
(***************************************************************************)
\* fault: a query word only matches a company word equal to it
WordHit_EqualOnly(query_word, comp_word) ==
  query_word = comp_word

\* line 204: the test of one query word against one company word
WordHit(query_word, comp_word) ==
  \/ query_word = comp_word
  \/ Contains(comp_word, query_word)
  \/ StartsWith(comp_word, query_word)

\* lines 201-206: the number of query words matched by some company word
RECURSIVE WordsMatched(_, _)
WordsMatched(query_words, company_words) ==
  IF query_words = << >> THEN 0
  ELSE (IF \E i \in 1..Len(company_words) : WordHit(query_words[1], company_words[i])
        THEN 1 ELSE 0)
       + WordsMatched(Tail(query_words), company_words)

Max(a, b) ==
  IF a >= b THEN a ELSE b

\* line 210: the literals 0.95 and 0.05
WordMatchBase ==
  Literal(95, 100)

WordMatchPenalty ==
  Literal(5, 100)

\* line 210: 0.95 - (0.05 * (len(company_words) - len(query_words)) / max(len(company_words), 1)),
\* each operation rounded as the interpreter rounds it
WordMatchScore(nq, nc) ==
  FloatSub(WordMatchBase,
           FloatDiv(FloatMul(WordMatchPenalty, Float(nc - nq)), Float(Max(nc, 1))))

\* line 218: 0.85
StartMatchScore ==
  Literal(85, 100)

\* line 226: 0.7
SimilarityThreshold ==
  Literal(7, 10)

\* the running best before the scan (lines 189-191)
NoBest ==
  [match |-> None, score |-> Zero, type |-> "", variant |-> None]

\* fault: a word match also replaces a running best of the same score
\* lines 208-214: all the query words are matched, and the score is compared
\* with the running best; replaces says that the score replaces the best
WordMatch(best, query_words, company_words, company_name, symbol, score, replaces) ==
  IF WordsMatched(query_words, company_words) = Len(query_words) /\ replaces
  THEN [match |-> Some(symbol), score |-> score, type |-> "word_match",
        variant |-> Some(company_name)]
  ELSE best

\* lines 198-199, 208-214 on the words of the query and of the company name
WordStrategy(best, query_words, company_words, company_name, symbol, score) ==
  WordMatch(best, query_words, company_words, company_name, symbol, score,
            ScoreGT(score, best.score))

\* fault: a word match also replaces a running best of the same score
Strategy1_ReplacesOnTie(best, normalized_query, company_name, symbol) ==
  WordMatch(best, Split(normalized_query), Split(company_name), company_name, symbol,
            WordMatchScore(Len(Split(normalized_query)), Len(Split(company_name))),
            ~ScoreGT(best.score,
                     WordMatchScore(Len(Split(normalized_query)), Len(Split(company_name)))))

\* Strategy 1 (lines 196-214)
Strategy1(best, normalized_query, company_name, symbol) ==
  WordStrategy(best, Split(normalized_query), Split(company_name), company_name, symbol,
               WordMatchScore(Len(Split(normalized_query)), Len(Split(company_name))))

\* Strategy 2 (lines 216-222)
Strategy2(best, normalized_query, company_name, symbol) ==
  IF StartsWith(company_name, normalized_query) /\ ScoreGT(StartMatchScore, best.score)
  THEN [match |-> Some(symbol), score |-> StartMatchScore, type |-> "start_match",
        variant |-> Some(company_name)]
  ELSE best

\* lines 226-229 for the similarity_score of line 225
SimilarityMatch(best, company_name, symbol, similarity_score) ==
  IF ScoreGT(similarity_score, SimilarityThreshold)
     /\ ScoreGT(similarity_score, best.score)
  THEN [match |-> Some(symbol), score |-> similarity_score, type |-> "similarity",
        variant |-> Some(company_name)]
  ELSE best

\* Strategy 3 (lines 224-229)
Strategy3(best, normalized_query, company_name, symbol) ==
  SimilarityMatch(best, company_name, symbol, similarity(normalized_query, company_name))

\* the body of the loop of line 193 for one entry
ScanEntry(best, normalized_query, company_name, symbol) ==
  Strategy3(Strategy2(Strategy1(best, normalized_query, company_name, symbol),
                      normalized_query, company_name, symbol),
            normalized_query, company_name, symbol)

\* the loop of line 193 over the entries from position i on
\* (best.score is read at every entry so that the running best is a value, not
\* a pending computation, when the next entry is scanned)
RECURSIVE ScanFrom(_, _, _, _)
ScanFrom(best, normalized_query, mapping, i) ==
  IF i > Len(mapping) \/ best.score # best.score THEN best
  ELSE ScanFrom(ScanEntry(best, normalized_query, mapping[i][1], mapping[i][2]),
                normalized_query, mapping, i + 1)

FuzzyScan(normalized_query, mapping) ==
  ScanFrom(NoBest, normalized_query, mapping, 1)

\* line 232: the first key of the mapping whose ticker is best_match
MatchingCompany(mapping, best_match) ==
  mapping[CHOOSE i \in 1..Len(mapping) :
            /\ mapping[i][2] = best_match
            /\ \A j \in 1..(i - 1) : mapping[j][2] # best_match][1]

(***************************************************************************)
(* Results, messages and the outcome of a block of code.                  *)
(*                                                                         *)
(* A message is the f-string that built it: its leading mark ("check" for *)
(* the check mark, "cross" for the cross mark, "magnifier" for the        *)
(* magnifying glass), the template and the values interpolated into it.   *)
(***************************************************************************)
Msg(mark, tmpl, args, strategy, count) ==
  [mark |-> mark, tmpl |-> tmpl, args |-> args, strategy |-> strategy, count |-> count]

\* the tuple (resolved_symbol, suggestions, message) of resolve_symbol
Result(resolved_symbol, suggestions, message) ==
  [resolved_symbol |-> resolved_symbol, suggestions |-> suggestions, message |-> message]

\* a block of code returns a value, raises, or falls through to the next line
Return(v) ==
  [kind |-> "return", value |-> v, exc_type |-> << >>, exc |-> << >>]

\* raise of an exception of class exc_type whose str() is e.  A class is
\* given by type(e).__mro__, the names of the class and of its base classes
\* (object left out)
Raise(exc_type, e) ==
  [kind |-> "raise", value |-> << >>, exc_type |-> exc_type, exc |-> e]

Fallthrough ==
  [kind |-> "fallthrough", value |-> << >>, exc_type |-> << >>, exc |-> << >>]

\* isinstance(e, Exception), the test of an `except Exception` clause:
\* Exception is the class of e or one of its base classes
IsException(exc_type) ==
  \E i \in 1..Len(exc_type) : exc_type[i] = "Exception"

\* the classes of the exceptions of the inputs and of the payload errors
ClassException ==
  <<"Exception", "BaseException">>

ClassValueError ==
  <<"ValueError", "Exception", "BaseException">>

ClassConnectionError ==
  <<"ConnectionError", "OSError", "Exception", "BaseException">>

ClassAttributeError ==
  <<"AttributeError", "Exception", "BaseException">>

ClassTypeError ==
  <<"TypeError", "Exception", "BaseException">>

ClassKeyboardInterrupt ==
  <<"KeyboardInterrupt", "BaseException">>

ClassSystemExit ==
  <<"SystemExit", "BaseException">>

ClassGeneratorExit ==
  <<"GeneratorExit", "BaseException">>

\* type(x).__name__ of the payloads of the providers
NoneTypeName ==
  <<"N","o","n","e","T","y","p","e">>

DictTypeName ==
  <<"d","i","c","t">>

ListTypeName ==
  <<"l","i","s","t">>

StrTypeName ==
  <<"s","t","r">>

IntTypeName ==
  <<"i","n","t">>

\* str(e) of the AttributeError of x.attribute on an x of the type: "'str'
\* object has no attribute 'get'"
AttributeErrorText(type, attribute) ==
  <<"'">> \o type \o <<"'"," ","o","b","j","e","c","t"," ","h","a","s"," ","n","o"," ","a","t","t","r","i","b","u","t","e"," ","'">>
  \o attribute \o <<"'">>

\* str(e) of the TypeError of x[:10] on an x of the type: "unhashable type:
\* 'slice'" for a dict, "'int' object is not subscriptable" for a type that has
\* no subscript
TypeErrorText(type) ==
  IF type = DictTypeName
  THEN <<"u","n","h","a","s","h","a","b","l","e"," ","t","y","p","e",":"," ","'","s","l","i","c","e","'">>
  ELSE <<"'">> \o type \o <<"'"," ","o","b","j","e","c","t"," ","i","s"," ","n","o","t"," ","s","u","b","s","c","r","i","p","t","a","b","l","e">>

\* the attributes whose lookup fails: result.get (line 247) and
\* symbol.endswith (line 260)
AttrGet ==
  <<"g","e","t">>

AttrEndswith ==
  <<"e","n","d","s","w","i","t","h">>

\* truthiness of a str
Truthy(str) ==
  str # << >>

\* s[:n] + ('...' if len(s) > n else '')
Ellipsis(str, n) ==
  IF Len(str) > n THEN SubSeq(str, 1, n) \o <<".", ".", ".">> ELSE str

\* str.title(): a letter is title-cased after a character that is not a
\* letter, lower-cased after a letter
RECURSIVE TitleFrom(_, _)
TitleFrom(str, i) ==
  IF i > Len(str) THEN << >>
  ELSE (IF i > 1 /\ IsAlpha(str[i - 1]) THEN <<LowerChar(str[i])>> ELSE TitleChar(str[i]))
       \o TitleFrom(str, i + 1)

Title(str) ==
  TitleFrom(str, 1)

(***************************************************************************)
(* resolve_symbol, one operator per step of the source.                   *)
(*                                                                         *)
(* A reply of the exact-ticker provider (yf.Ticker(...).info) is          *)
(* [raises, exc, info]; info.kind is "none" (None), "dict" (a dict,       *)
(* info.symbol its 'symbol' entry, None when it has none) or "other" (a   *)
(* payload of another type, info.type its name, that has no .get);        *)
(* info.empty says that the payload is falsy: {}, '', 0, [].              *)
(***************************************************************************)
\* fault: the symbol is returned as typed, not upper-cased
TickerCheckBody_RawQuery(query, reply) ==
  IF reply.raises THEN Raise(reply.exc_type, reply.exc)
  ELSE IF reply.info.kind = "none" \/ reply.info.empty THEN Fallthrough
  ELSE IF reply.info.kind = "other" THEN Raise(ClassAttributeError, AttributeErrorText(reply.info.type, AttrGet))
  ELSE IF ~IsNone(reply.info.symbol) /\ Truthy(Val(reply.info.symbol))
       THEN Return(Result(Some(query), << >>,
                          Msg("check", "Symbol '{0}' is valid", <<query>>, "", 0)))
       ELSE Fallthrough

\* lines 169-172, the body of the try
TickerCheckBody(query, reply) ==
  IF reply.raises THEN Raise(reply.exc_type, reply.exc)
  ELSE IF reply.info.kind = "none" \/ reply.info.empty THEN Fallthrough
  ELSE IF reply.info.kind = "other" THEN Raise(ClassAttributeError, AttributeErrorText(reply.info.type, AttrGet))
  ELSE IF ~IsNone(reply.info.symbol) /\ Truthy(Val(reply.info.symbol))
       THEN Return(Result(Some(Upper(query)), << >>,
                          Msg("check", "Symbol '{0}' is valid", <<Upper(query)>>, "", 0)))
       ELSE Fallthrough

\* fault: Step 1 without its handler
ExceptPass_Reraise(outcome) ==
  outcome

\* lines 173-174, `except: pass`: the bare clause catches every exception,
\* KeyboardInterrupt and SystemExit included
ExceptPass(outcome) ==
  IF outcome.kind = "raise" THEN Fallthrough ELSE outcome

\* Step 1 (lines 167-174)
TickerCheck(query, reply) ==
  ExceptPass(TickerCheckBody(query, reply))

\* fault: Step 2 without the lookup of the raw lowercase query
IndexExact_NormalizedOnly(query, mapping) ==
  IF DictHas(mapping, normalize_input(query))
  THEN Return(Result(Some(DictGet(mapping, normalize_input(query))), << >>,
                     Msg("check", "Resolved '{0}' to '{1}'",
                         <<query, DictGet(mapping, normalize_input(query))>>, "", 0)))
  ELSE Fallthrough

\* Step 2 (lines 176-186)
IndexExact(query, mapping) ==
  IF DictHas(mapping, normalize_input(query))
  THEN Return(Result(Some(DictGet(mapping, normalize_input(query))), << >>,
                     Msg("check", "Resolved '{0}' to '{1}'",
                         <<query, DictGet(mapping, normalize_input(query))>>, "", 0)))
  ELSE IF DictHas(mapping, Lower(query))
  THEN Return(Result(Some(DictGet(mapping, Lower(query))), << >>,
                     Msg("check", "Resolved '{0}' to '{1}'",
                         <<query, DictGet(mapping, Lower(query))>>, "", 0)))
  ELSE Fallthrough

\* line 231, `if best_match:`
BestMatchFound(best) ==
  ~IsNone(best.match) /\ Truthy(Val(best.match))

\* lines 231-233 for the best of the scan
FuzzyResult(query, mapping, best) ==
  IF BestMatchFound(best)
  THEN Return(Result(best.match, << >>,
                     Msg("check", "Best match for '{0}' is '{1}' ({2}) [{3}]",
                         <<query, Val(best.match),
                           Title(MatchingCompany(mapping, Val(best.match)))>>,
                         best.type, 0)))
  ELSE Fallthrough

\* Step 3 (lines 188-233)
IndexFuzzy(query, mapping) ==
  FuzzyResult(query, mapping, FuzzyScan(normalize_input(query), mapping))

(***************************************************************************)
(* Step 4, the external search (lines 235-297).                           *)
(*                                                                         *)
(* A reply of the search provider (yf.search(query)) is [raises, exc,     *)
(* payload]; payload.kind is "none" (None), "list" (payload.items its     *)
(* elements) or "other" (a payload of another type, payload.type its      *)
(* name, that cannot be sliced: a dict or a number; payload.empty says    *)
(* that it is falsy: {}, 0).  An element is [kind, type, symbol,          *)
(* symbol_null, shortname, longname, exchange, quoteType]: kind "other"   *)
(* is an element of another type, named by type, that has no .get; an     *)
(* Optional field is None when the key is absent; symbol_null is a        *)
(* 'symbol' that is present and null.                                     *)
(***************************************************************************)
\* x or y on Optional strings, as a string: `(x or '')`, `x or y or 'Unknown'`
OrElse(x, default) ==
  IF ~IsNone(x) /\ Truthy(Val(x)) THEN Val(x) ELSE default

Unknown ==
  <<"U","n","k","n","o","w","n">>

DotNS ==
  <<".", "N", "S">>

DotBO ==
  <<".", "B", "O">>

\* max(a, b) on scores
MaxScore(a, b) ==
  IF ScoreGT(b, a) THEN b ELSE a

\* line 262: 1.2
IndianBoost ==
  Literal(12, 10)

\* line 264: 1.1
GlobalBoost ==
  Literal(11, 10)

\* lines 259-264: the regional boost, * 1.2 and * 1.1
Boost(name_score, prefer_indian, is_indian) ==
  IF prefer_indian /\ is_indian THEN FloatMul(name_score, IndianBoost)
  ELSE IF ~prefer_indian /\ ~is_indian THEN FloatMul(name_score, GlobalBoost)
  ELSE name_score

\* line 277: 0.85
HighConfidence ==
  Literal(85, 100)

\* fault: the top candidate is accepted whatever its score
GoodEnough_Lenient ==
  Float(-1)

\* line 289: 0.6
GoodEnough ==
  Literal(6, 10)

\* lines 252-256: the better of the scores of the short and the long name
NameScore(normalized_query, item) ==
  MaxScore(similarity(normalized_query, Lower(OrElse(item.shortname, << >>))),
           similarity(normalized_query, Lower(OrElse(item.longname, << >>))))

\* line 260
IsIndian(symbol) ==
  EndsWith(symbol, DotNS) \/ EndsWith(symbol, DotBO)

\* lines 247-274 for one element that is a dict with a string symbol
Suggestion(normalized_query, prefer_indian, item) ==
  [symbol    |-> OrElse(item.symbol, << >>),
   name      |-> OrElse(item.longname, OrElse(item.shortname, Unknown)),
   exchange  |-> item.exchange,
   type      |-> item.quoteType,
   score     |-> Boost(NameScore(normalized_query, item), prefer_indian,
                       IsIndian(OrElse(item.symbol, << >>))),
   is_indian |-> IsIndian(OrElse(item.symbol, << >>))]

\* lines 274-278: the suggestion is appended, and its symbol is the exact
\* match when its score is above 0.85 and there is no exact match yet
Collect(acc, sg) ==
  [suggestions |-> Append(acc.suggestions, sg),
   exact_match |-> IF ScoreGT(sg.score, HighConfidence) /\ ~Truthy(acc.exact_match)
                   THEN sg.symbol ELSE acc.exact_match,
   raised      |-> FALSE,
   exc         |-> << >>]

\* the loop of lines 246-278 from element i on; acc is [suggestions,
\* exact_match, raised, exc]: it stops at the first element that raises
RECURSIVE SearchLoop(_, _, _, _, _)
SearchLoop(acc, normalized_query, prefer_indian, items, i) ==
  IF i > Len(items) \/ acc.raised THEN acc
  ELSE IF items[i].kind = "other"
  THEN [acc EXCEPT !.raised = TRUE, !.exc = AttributeErrorText(items[i].type, AttrGet)]
  ELSE IF items[i].symbol_null
  THEN [acc EXCEPT !.raised = TRUE, !.exc = AttributeErrorText(NoneTypeName, AttrEndswith)]
  ELSE SearchLoop(Collect(acc, Suggestion(normalized_query, prefer_indian, items[i])),
                  normalized_query, prefer_indian, items, i + 1)

\* list.sort(key=score, reverse=True): stable, so an element is placed after
\* the elements already there whose score is at least its own
RECURSIVE InsertByScore(_, _)
InsertByScore(sorted, sg) ==
  IF sorted = << >> THEN <<sg>>
  ELSE IF ScoreGT(sg.score, Head(sorted).score) THEN <<sg>> \o sorted
  ELSE <<Head(sorted)>> \o InsertByScore(Tail(sorted), sg)

\* fault: the suggestions are left in the order of the provider
SortByScore_ProviderOrder(sorted, suggestions, i) ==
  suggestions

RECURSIVE SortByScore(_, _, _)
SortByScore(sorted, suggestions, i) ==
  IF i > Len(suggestions) THEN sorted
  ELSE SortByScore(InsertByScore(sorted, suggestions[i]), suggestions, i + 1)

\* seq[:n]
Take(seq, n) ==
  IF Len(seq) <= n THEN seq ELSE SubSeq(seq, 1, n)

\* line 285: the first suggestion whose symbol is exact_match
FirstWithSymbol(suggestions, symbol) ==
  suggestions[CHOOSE i \in 1..Len(suggestions) :
                /\ suggestions[i].symbol = symbol
                /\ \A j \in 1..(i - 1) : suggestions[j].symbol # symbol]

\* fault: only a reply of None counts as no results
NoResults_OnlyNone(payload) ==
  payload.kind = "none"

\* line 239, `if not search_results`
NoResults(payload) ==
  \/ payload.kind = "none"
  \/ payload.kind = "list" /\ payload.items = << >>
  \/ payload.kind = "other" /\ payload.empty

\* lines 243-244
NoSuggestions ==
  [suggestions |-> << >>, exact_match |-> << >>, raised |-> FALSE, exc |-> << >>]

\* lines 283-294 for the exact match of the loop and the sorted suggestions
SearchResult(query, exact_match, suggestions) ==
  IF Truthy(exact_match)
  THEN Return(Result(Some(exact_match), Take(suggestions, 5),
                     Msg("check", "High confidence match for '{0}': {1} ({2})",
                         <<query, exact_match,
                           Ellipsis(FirstWithSymbol(suggestions, exact_match).name, 50)>>,
                         "", 0)))
  ELSE IF suggestions # << >> /\ ScoreGT(suggestions[1].score, GoodEnough)
  THEN Return(Result(Some(suggestions[1].symbol), Take(suggestions, 5),
                     Msg("check", "Best match for '{0}': {1} ({2})",
                         <<query, suggestions[1].symbol,
                           Ellipsis(suggestions[1].name, 50)>>, "", 0)))
  ELSE Return(Result(None, Take(suggestions, 5),
                     Msg("magnifier",
                         "Found {n} possible matches for '{0}'. Please review suggestions below:",
                         <<query>>, "", Len(suggestions))))

\* lines 280-294 after the loop: an element that raised leaves the try,
\* otherwise the suggestions are sorted
SearchOutcome(query, acc) ==
  IF acc.raised THEN Raise(ClassAttributeError, acc.exc)
  ELSE SearchResult(query, acc.exact_match, SortByScore(<< >>, acc.suggestions, 1))

\* lines 237-294, the body of the try
ExternalSearchBody(query, prefer_indian, reply) ==
  IF reply.raises THEN Raise(reply.exc_type, reply.exc)
  ELSE IF NoResults(reply.payload)
  THEN Return(Result(None, << >>,
                     Msg("cross", "No stocks found matching '{0}'. Try a different search term.",
                         <<query>>, "", 0)))
  ELSE IF reply.payload.kind = "other" THEN Raise(ClassTypeError, TypeErrorText(reply.payload.type))
  ELSE SearchOutcome(query,
                     SearchLoop(NoSuggestions, normalize_input(query), prefer_indian,
                                Take(reply.payload.items, 10), 1))

\* fault: after a search error the query itself is returned as the symbol
ExceptSearchError_EchoesQuery(query, outcome) ==
  IF outcome.kind = "raise" /\ IsException(outcome.exc_type)
  THEN Return(Result(Some(Upper(query)), << >>,
                     Msg("cross", "Error searching for '{0}': {1}", <<query, outcome.exc>>, "", 0)))
  ELSE outcome

\* lines 296-297, `except Exception as e`: every exception whose class
\* derives from Exception is caught, and no other (KeyboardInterrupt,
\* SystemExit, GeneratorExit)
ExceptSearchError(query, outcome) ==
  IF outcome.kind = "raise" /\ IsException(outcome.exc_type)
  THEN Return(Result(None, << >>,
                     Msg("cross", "Error searching for '{0}': {1}", <<query, outcome.exc>>, "", 0)))
  ELSE outcome

\* Step 4 (lines 235-297)
ExternalSearch(query, prefer_indian, reply) ==
  ExceptSearchError(query, ExternalSearchBody(query, prefer_indian, reply))

(***************************************************************************)
(* format_suggestions, smart_resolve, resolve_multiple_symbols and        *)
(* add_indian_suffix.                                                     *)
(***************************************************************************)
\* f"{score:.0%}": the float score * 100, printed as the nearest integer, a
\* half as the even one
Percent(score) ==
  RoundToInt(FloatMul(score, Float(100)))

\* one row of the table of format_suggestions (lines 308-317)
SuggestionRow(suggestion) ==
  [flag       |-> IF suggestion.is_indian THEN "india" ELSE "globe",
   symbol     |-> suggestion.symbol,
   name       |-> Ellipsis(suggestion.name, 40),
   exchange   |-> suggestion.exchange,
   confidence |-> Percent(suggestion.score)]

\* format_suggestions (lines 299-320): the rows of the table, no row for ""
RECURSIVE format_suggestions(_)
format_suggestions(suggestions) ==
  IF suggestions = << >> THEN << >>
  ELSE <<SuggestionRow(Head(suggestions))>> \o format_suggestions(Tail(suggestions))

\* `if resolved:` on an Optional[str]
Resolved(result) ==
  ~IsNone(result.resolved_symbol) /\ Truthy(Val(result.resolved_symbol))

\* smart_resolve, line 390
PreferIndian(context) ==
  context \in {"indian", "general"}

\* smart_resolve after resolve_symbol has returned (lines 394-400): the pair
\* (resolved_symbol, message); the message is the message of resolve_symbol
\* followed by the table of the suggestions
SmartResolveReturn(result) ==
  IF Resolved(result)
  THEN [resolved_symbol |-> result.resolved_symbol,
        message |-> [lines |-> <<result.message>>, table |-> << >>]]
  ELSE [resolved_symbol |-> None,
        message |-> [lines |-> <<result.message>>,
                     table |-> format_suggestions(result.suggestions)]]

\* str.split(','): the pieces between the commas, in order
RECURSIVE SplitCommaFrom(_, _, _)
SplitCommaFrom(str, i, cur) ==
  IF i > Len(str) THEN <<cur>>
  ELSE IF str[i] = "," THEN <<cur>> \o SplitCommaFrom(str, i + 1, << >>)
  ELSE SplitCommaFrom(str, i + 1, Append(cur, str[i]))

\* line 333: [s.strip() for s in symbols_input.split(',')]
RECURSIVE StripAll(_)
StripAll(pieces) ==
  IF pieces = << >> THEN << >> ELSE <<Strip(Head(pieces))>> \o StripAll(Tail(pieces))

SymbolsList(symbols_input) ==
  StripAll(SplitCommaFrom(symbols_input, 1, << >>))

\* the accumulators of resolve_multiple_symbols (lines 334-336)
NoAccumulators ==
  [resolved_symbols |-> << >>, messages |-> << >>, all_suggestions |-> << >>]

\* fault: the suggestions of a resolved token are collected as well
Accumulate_AllSuggestions(acc, symbol_query, result) ==
  IF Resolved(result)
  THEN [resolved_symbols |-> Append(acc.resolved_symbols, Val(result.resolved_symbol)),
        messages         |-> IF result.message.mark = "check"
                             THEN Append(acc.messages, result.message)
                             ELSE acc.messages,
        all_suggestions  |-> acc.all_suggestions \o result.suggestions]
  ELSE [resolved_symbols |-> acc.resolved_symbols,
        messages         |-> Append(acc.messages,
                                    Msg("cross", "Could not resolve '{0}'", <<symbol_query>>, "", 0)),
        all_suggestions  |-> acc.all_suggestions \o result.suggestions]

\* fault: the newest ticker and the newest line are put first
Accumulate_NewestFirst(acc, symbol_query, result) ==
  IF Resolved(result)
  THEN [resolved_symbols |-> <<Val(result.resolved_symbol)>> \o acc.resolved_symbols,
        messages         |-> IF result.message.mark = "check"
                             THEN <<result.message>> \o acc.messages
                             ELSE acc.messages,
        all_suggestions  |-> acc.all_suggestions]
  ELSE [resolved_symbols |-> acc.resolved_symbols,
        messages         |-> <<Msg("cross", "Could not resolve '{0}'", <<symbol_query>>, "", 0)>>
                             \o acc.messages,
        all_suggestions  |-> acc.all_suggestions \o result.suggestions]

\* lines 344-351: one token's result is added to the accumulators
Accumulate(acc, symbol_query, result) ==
  IF Resolved(result)
  THEN [resolved_symbols |-> Append(acc.resolved_symbols, Val(result.resolved_symbol)),
        messages         |-> IF result.message.mark = "check"
                             THEN Append(acc.messages, result.message)
                             ELSE acc.messages,
        all_suggestions  |-> acc.all_suggestions]
  ELSE [resolved_symbols |-> acc.resolved_symbols,
        messages         |-> Append(acc.messages,
                                    Msg("cross", "Could not resolve '{0}'", <<symbol_query>>, "", 0)),
        all_suggestions  |-> acc.all_suggestions \o result.suggestions]

\* lines 353-359: the pair (resolved_symbols, final_message)
MultipleReturn(acc) ==
  [resolved_symbols |-> acc.resolved_symbols,
   message |-> [lines |-> acc.messages, table |-> format_suggestions(acc.all_suggestions)]]

\* the position of the next token that is not empty, from position i on;
\* Len(symbols_list) + 1 when there is none (lines 338-340)
RECURSIVE NextToken(_, _)
NextToken(symbols_list, i) ==
  IF i > Len(symbols_list) \/ symbols_list[i] # << >> THEN i
  ELSE NextToken(symbols_list, i + 1)

\* str.replace(old, ''): every occurrence, leftmost first
RECURSIVE Remove(_, _, _)
Remove(str, old, i) ==
  IF i > Len(str) THEN << >>
  ELSE IF MatchAt(str, i, old) THEN Remove(str, old, i + Len(old))
  ELSE <<str[i]>> \o Remove(str, old, i + 1)

\* line 373: full_symbol.replace('.NS', '').replace('.BO', '').upper()
BareSymbol(full_symbol) ==
  Upper(Remove(Remove(full_symbol, DotNS, 1), DotBO, 1))

\* line 366: the symbol already has an exchange suffix
HasIndianSuffix(symbol) ==
  EndsWith(symbol, DotNS) \/ EndsWith(symbol, DotBO)

\* lines 366-377 for the upper-cased symbol of line 363
WithIndianSuffix(symbol, mapping) ==
  IF HasIndianSuffix(symbol) THEN symbol
  ELSE IF \E i \in 1..Len(mapping) : BareSymbol(mapping[i][2]) = symbol
  THEN mapping[CHOOSE i \in 1..Len(mapping) :
                 /\ BareSymbol(mapping[i][2]) = symbol
                 /\ \A j \in 1..(i - 1) : BareSymbol(mapping[j][2]) # symbol][2]
  ELSE symbol \o DotNS

\* add_indian_suffix (lines 361-377), mapping the combined mapping
add_indian_suffix(symbol, mapping) ==
  WithIndianSuffix(Upper(symbol), mapping)

(***************************************************************************)
(* The loader, _load_indian_stocks_from_csv and _load_global_stocks.      *)
(*                                                                         *)
(* The dataset is [readable, rows]: pd.read_csv raises when it is not     *)
(* readable; a row is a record of its columns, and row['IssuerName'] or   *)
(* row['SecurityId'] raises on a row that lacks the column.               *)
(***************************************************************************)
\* lines 35-36 raise KeyError
RowRaises(row) ==
  "IssuerName" \notin DOMAIN row \/ "SecurityId" \notin DOMAIN row

\* fault: the handler keeps what the loop had built
LoadFailure_KeepsPartial(m) ==
  m

\* lines 74-77: the handler of the loader, m the mapping when the error occurred
LoadFailure(m) ==
  Some(<< >>)

(***************************************************************************)
(* A call in progress.  resolve_symbol runs step by step (pc names the    *)
(* step to run next); smart_resolve and resolve_multiple_symbols run      *)
(* resolve_symbol and continue when it has returned (pc = "returned").    *)
(* trace lists the steps the current run of resolve_symbol has entered,   *)
(* each with the way it ended; ticker_reply is the reply the exact-ticker *)
(* provider gave to Step 1, kept until Step 2 starts; search_reply is the *)
(* reply the search provider gave to Step 4; stock_mapping is the local   *)
(* variable of line 177.  per_token lists, for resolve_multiple_symbols,  *)
(* the tokens resolved so far with their results.                         *)
(***************************************************************************)
IdleFrame ==
  [op |-> "idle", pc |-> "idle", query |-> << >>, prefer_indian |-> FALSE,
   trace |-> << >>, ticker_reply |-> None, search_reply |-> None,
   stock_mapping |-> None, result |-> None, exc_type |-> None, exc |-> None,
   symbols_list |-> << >>, pos |-> 0, acc |-> NoAccumulators, per_token |-> << >>,
   ret |-> None]

\* resolve_symbol is entered with this query
EnterResolve(f, query) ==
  [f EXCEPT !.pc = "ticker_check", !.query = query, !.trace = << >>,
            !.ticker_reply = None, !.search_reply = None, !.stock_mapping = None,
            !.result = None]

\* the frame after the step `stage` of resolve_symbol, whose code ended with
\* outcome: a return ends resolve_symbol, an exception leaves it, and
\* otherwise control reaches the next step
AfterStep(f, stage, outcome, next_pc) ==
  IF outcome.kind = "return"
  THEN [f EXCEPT !.trace = Append(@, <<stage, outcome.kind>>),
                 !.pc = "returned", !.result = Some(outcome.value), !.stock_mapping = None]
  ELSE IF outcome.kind = "raise"
  THEN [f EXCEPT !.trace = Append(@, <<stage, outcome.kind>>),
                 !.pc = "raised", !.exc_type = Some(outcome.exc_type),
                 !.exc = Some(outcome.exc), !.stock_mapping = None]
  ELSE [f EXCEPT !.trace = Append(@, <<stage, outcome.kind>>), !.pc = next_pc]

\* resolve_multiple_symbols moves to the next token that is not empty, or
\* returns when there is none (lines 338-359)
NextOrReturn(f, acc, from) ==
  IF NextToken(f.symbols_list, from) <= Len(f.symbols_list)
  THEN [EnterResolve(f, f.symbols_list[NextToken(f.symbols_list, from)])
          EXCEPT !.pos = NextToken(f.symbols_list, from), !.acc = acc]
  ELSE [f EXCEPT !.pc = "done", !.pos = NextToken(f.symbols_list, from), !.acc = acc,
                 !.ret = Some(MultipleReturn(acc))]

\* fault: resolve_multiple_symbols returns at the first token it cannot resolve
AfterResolve_AbortsOnFailure(f) ==
  IF f.op = "resolve_symbol"
  THEN [f EXCEPT !.pc = "done", !.ret = f.result]
  ELSE IF f.op = "smart_resolve"
  THEN [f EXCEPT !.pc = "done", !.ret = Some(SmartResolveReturn(Val(f.result)))]
  ELSE NextOrReturn([f EXCEPT !.per_token = Append(@, [token |-> f.query,
                                                       result |-> Val(f.result)])],
                    Accumulate(f.acc, f.query, Val(f.result)),
                    IF Resolved(Val(f.result)) THEN f.pos + 1 ELSE Len(f.symbols_list) + 1)

\* the caller of resolve_symbol continues with its result
AfterResolve(f) ==
  IF f.op = "resolve_symbol"
  THEN [f EXCEPT !.pc = "done", !.ret = f.result]
  ELSE IF f.op = "smart_resolve"
  THEN [f EXCEPT !.pc = "done", !.ret = Some(SmartResolveReturn(Val(f.result)))]
  ELSE NextOrReturn([f EXCEPT !.per_token = Append(@, [token |-> f.query,
                                                       result |-> Val(f.result)])],
                    Accumulate(f.acc, f.query, Val(f.result)), f.pos + 1)

(***************************************************************************)
(* The inputs: datasets, queries and provider replies.                    *)
(***************************************************************************)
Row(name, ticker) ==
  [IssuerName |-> name, SecurityId |-> ticker]

\* a row of a file that has no IssuerName column
RowWithoutName(ticker) ==
  [SecurityId |-> ticker]

Dataset(readable, rows) ==
  [readable |-> readable, rows |-> rows]

NameABLtd ==
  <<"A", " ", "&", " ", "B", " ", "L", "t", "d">>

NameApple ==
  <<"A", "p", "p", "l", "e">>

NameAB ==
  <<"a", " ", "b">>

NameTheABC ==
  <<"T", "h", "e", " ", "A", " ", "B", " ", "C">>

NameABCo ==
  <<"A", " ", "B", " ", "C", "o", ".">>

NameDrX ==
  <<"D", "r", ".", " ", "X">>

NameBlank ==
  <<" ">>

NameX ==
  <<"x">>

TickerAB ==
  <<"A", "B", ".", "N", "S">>

TickerAPL ==
  <<"A", "P", "L", ".", "B", "O">>

TickerT1 ==
  <<"T", "1">>

TickerT2 ==
  <<" ", "T", "2", " ">>

QueryApple ==
  <<"A", "p", "p", "l", "e">>

QueryAandB ==
  <<"A", " ", "&", " ", "B">>

QueryAppl ==
  <<"a", "p", "p", "l">>

QueryAapl ==
  <<"a", "a", "p", "l">>

QueryTeslaa ==
  <<"t", "e", "s", "l", "a", "a">>

QueryEmpty ==
  << >>

QueryAmp ==
  <<"&">>

QueryFaceboo ==
  <<"f", "a", "c", "e", "b", "o", "o">>

QueryAbLtd ==
  <<"A", "b", " ", "L", "t", "d", ".">>

SymAAPL ==
  <<"A", "A", "P", "L">>

SymAAPLNS ==
  <<"A", "A", "P", "L", ".", "N", "S">>

SymAPLE ==
  <<"A", "P", "L", "E">>

SymAPLENS ==
  <<"A", "P", "L", "E", ".", "N", "S">>

SymZZ ==
  <<"Z", "Z", ".", "B", "O">>

SymZZGlobal ==
  <<"Z", "Z">>

SymAPX ==
  <<"A", "P", "X">>

NameApxx ==
  <<"a", "p", "x", "x">>

NameAaplInc ==
  <<"A", "a", "p", "l">>

NameApleX ==
  <<"a", "p", "l", "e", " ", "x">>

NameZz ==
  <<"z", "z">>

ExchNSI ==
  <<"N", "S", "I">>

ExchNMS ==
  <<"N", "M", "S">>

TypeEquity ==
  <<"E", "Q", "U", "I", "T", "Y">>

ErrTimeout ==
  <<"t", "i", "m", "e", "d", " ", "o", "u", "t">>

ErrBye ==
  <<"b", "y", "e">>

InputAppleAapl ==
  <<"A", "p", "p", "l", "e", ",", " ", "a", "a", "p", "l">>

InputAaplAppl ==
  <<"a", "a", "p", "l", ",", ",", "a", "p", "p", "l">>

InputBlank ==
  <<" ", ",", " ">>

InputAaplAapl ==
  <<"a", "a", "p", "l", ",", "a", "a", "p", "l">>

SuffixAb ==
  <<"a", "b">>

SuffixAaplNs ==
  <<"a", "a", "p", "l", ".", "n", "s">>

SuffixZz ==
  <<"z", "z">>

\* the datasets of Spec: a file with two rows; a file that cannot be read; a
\* file whose second row lacks a column; a file without rows; a file whose
\* first row has a blank name
SpecDatasets ==
  { Dataset(TRUE, <<Row(NameABLtd, TickerAB), Row(NameApple, TickerAPL)>>),
    Dataset(FALSE, << >>),
    Dataset(TRUE, <<Row(NameABLtd, TickerAB), RowWithoutName(TickerT1)>>),
    Dataset(TRUE, << >>),
    Dataset(TRUE, <<Row(NameBlank, TickerT1), Row(NameTheABC, TickerT2)>>) }

\* the rows of the datasets of SpecBuild
RowUniverse ==
  { Row(NameABLtd, TickerAB), Row(NameAB, TickerT1), Row(NameAB, TickerT2),
    Row(NameTheABC, TickerT1), Row(NameABCo, TickerT2), Row(NameDrX, TickerT1),
    Row(NameX, TickerT2), Row(NameBlank, TickerT1), Row(NameApple, TickerAPL),
    RowWithoutName(TickerT1) }

MaxRows ==
  2

RECURSIVE SeqsUpTo(_, _)
SeqsUpTo(S, n) ==
  IF n = 0 THEN {<< >>}
  ELSE SeqsUpTo(S, n - 1)
       \cup {Append(sq, x) : sq \in {t \in SeqsUpTo(S, n - 1) : Len(t) = n - 1}, x \in S}

BuildDatasets ==
  {Dataset(FALSE, << >>)} \cup {Dataset(TRUE, rows) : rows \in SeqsUpTo(RowUniverse, MaxRows)}

Queries ==
  {QueryApple, QueryAandB, QueryAppl, QueryAapl, QueryTeslaa, QueryAbLtd, QueryEmpty,
   QueryFaceboo, QueryAmp}

Contexts ==
  {"indian", "global", "general"}

MultipleInputs ==
  {InputAppleAapl, InputAaplAppl, InputBlank, InputAaplAapl}

SuffixInputs ==
  {SuffixAb, SuffixAaplNs, SuffixZz, SymAAPL}

TickerReply(raises, exc_type, exc, info) ==
  [raises |-> raises, exc_type |-> exc_type, exc |-> exc, info |-> info]

Info(kind, empty, symbol) ==
  [kind |-> kind, empty |-> empty, symbol |-> symbol,
   type |-> IF kind = "none" THEN NoneTypeName ELSE DictTypeName]

\* a payload that is neither None nor a dict
OtherInfo(type, empty) ==
  [kind |-> "other", empty |-> empty, symbol |-> None, type |-> type]

\* the provider returns None: it has no record for the symbol
NoRecord ==
  TickerReply(FALSE, << >>, << >>, Info("none", TRUE, None))

\* the provider raises an Exception; the call is interrupted by
\* KeyboardInterrupt; the provider returns None; returns {}; returns a dict
\* without 'symbol'; returns a dict whose 'symbol' is ''; returns a dict with
\* a 'symbol'; returns a str that is not empty; returns 0
TickerReplies ==
  { TickerReply(TRUE, ClassValueError, ErrTimeout, Info("none", TRUE, None)),
    TickerReply(TRUE, ClassKeyboardInterrupt, ErrTimeout, Info("none", TRUE, None)),
    NoRecord,
    TickerReply(FALSE, << >>, << >>, Info("dict", TRUE, None)),
    TickerReply(FALSE, << >>, << >>, Info("dict", FALSE, None)),
    TickerReply(FALSE, << >>, << >>, Info("dict", FALSE, Some(<< >>))),
    TickerReply(FALSE, << >>, << >>, Info("dict", FALSE, Some(SymAAPL))),
    TickerReply(FALSE, << >>, << >>, OtherInfo(StrTypeName, FALSE)),
    TickerReply(FALSE, << >>, << >>, OtherInfo(IntTypeName, TRUE)) }

SearchReply(raises, exc_type, exc, kind, items) ==
  [raises |-> raises, exc_type |-> exc_type, exc |-> exc,
   payload |-> [kind |-> kind, items |-> items, empty |-> items = << >>,
                type |-> IF kind = "none" THEN NoneTypeName ELSE ListTypeName]]

\* a payload that is neither None nor a list
OtherSearchReply(type, empty) ==
  [raises |-> FALSE, exc_type |-> << >>, exc |-> << >>,
   payload |-> [kind |-> "other", items |-> << >>, empty |-> empty, type |-> type]]

Item(symbol, shortname, longname, exchange) ==
  [kind |-> "dict", type |-> DictTypeName, symbol |-> symbol, symbol_null |-> FALSE, shortname |-> shortname,
   longname |-> longname, exchange |-> exchange, quoteType |-> TypeEquity]

ItemHigh ==
  Item(Some(SymAAPL), None, Some(NameAaplInc), ExchNMS)

ItemHighNS ==
  Item(Some(SymAAPLNS), Some(NameAaplInc), None, ExchNSI)

ItemMid ==
  Item(Some(SymAPLE), Some(NameApleX), None, ExchNMS)

ItemMidNS ==
  Item(Some(SymAPLENS), Some(NameApleX), None, ExchNSI)

ItemLow ==
  Item(Some(SymZZ), None, Some(NameZz), ExchNSI)

ItemLowGlobal ==
  Item(Some(SymZZGlobal), None, Some(NameZz), ExchNMS)

ItemWeak ==
  Item(Some(SymAPX), Some(NameApxx), None, ExchNMS)

ItemNullSymbol ==
  [ItemLow EXCEPT !.symbol_null = TRUE]

ItemNotADict ==
  [ItemLow EXCEPT !.kind = "other", !.type = StrTypeName]

SearchReplies ==
  { SearchReply(TRUE, ClassException, ErrTimeout, "none", << >>),
    SearchReply(TRUE, ClassKeyboardInterrupt, ErrTimeout, "none", << >>),
    SearchReply(TRUE, ClassSystemExit, ErrBye, "none", << >>),
    SearchReply(TRUE, ClassGeneratorExit, << >>, "none", << >>),
    SearchReply(TRUE, ClassValueError, ErrTimeout, "none", << >>),
    SearchReply(TRUE, ClassConnectionError, ErrTimeout, "none", << >>),
    SearchReply(FALSE, << >>, << >>, "none", << >>),
    SearchReply(FALSE, << >>, << >>, "list", << >>),
    OtherSearchReply(IntTypeName, FALSE),
    OtherSearchReply(DictTypeName, FALSE),
    OtherSearchReply(IntTypeName, TRUE),
    SearchReply(FALSE, << >>, << >>, "list", <<ItemLow, ItemNotADict>>),
    SearchReply(FALSE, << >>, << >>, "list", <<ItemNullSymbol>>),
    SearchReply(FALSE, << >>, << >>, "list", <<ItemLow, ItemHigh, ItemHighNS>>),
    SearchReply(FALSE, << >>, << >>, "list", <<ItemMid, ItemMidNS, ItemLow>>),
    SearchReply(FALSE, << >>, << >>, "list", <<ItemLow>>),
    SearchReply(FALSE, << >>, << >>, "list", <<ItemLowGlobal, ItemLow, ItemWeak>>),
    SearchReply(FALSE, << >>, << >>, "list",
                <<ItemLow, ItemLowGlobal, ItemWeak, ItemLow, ItemLowGlobal, ItemWeak>>),
    SearchReply(FALSE, << >>, << >>, "list",
                <<ItemLow, ItemLowGlobal, ItemWeak, ItemLow, ItemLowGlobal,
                  ItemWeak, ItemLow, ItemLowGlobal, ItemWeak, ItemLow, ItemHigh>>) }

(***************************************************************************)
(* The state: the two mappings of the resolver, the progress of its       *)
(* construction, and the calls in progress.                               *)
(***************************************************************************)
VARIABLES
  _stock_mapping,   \* Optional dict: the reference mapping
  _global_mapping,  \* Optional dict: the curated mapping
  phase,            \* "new", "loading", "globals", "ready"
  csv,              \* the dataset tickers.csv
  row_idx,          \* the number of rows of csv the loop has processed
  load_failed,      \* the handler of the loader has run
  calls             \* the frame of each caller

vars ==
  <<_stock_mapping, _global_mapping, phase, csv, row_idx, load_failed, calls>>

Callers ==
  {"c1", "c2"}

\* the loop of lines 34-70 from row i on, and the handler when a row raises
RECURSIVE LoadRows(_, _, _)
LoadRows(m, rows, i) ==
  IF i > Len(rows) THEN Some(m)
  ELSE IF RowRaises(rows[i]) THEN LoadFailure(Some(m))
  ELSE LoadRows(ProcessRow(m, rows[i]), rows, i + 1)

\* _load_indian_stocks_from_csv as a whole: the new value of _stock_mapping
LoadIndianStocks(old, file) ==
  IF file.readable THEN LoadRows(<< >>, file.rows, 1) ELSE LoadFailure(old)

\* fault: the property updates the reference mapping in place instead of a
\* fresh dict
stock_mapping_Aliased(stock, global, file) ==
  IF IsNone(stock)
  THEN [stock    |-> Some(CombinedMapping(LoadIndianStocks(stock, file), Some(GlobalStocks))),
        global   |-> Some(GlobalStocks),
        combined |-> CombinedMapping(LoadIndianStocks(stock, file), Some(GlobalStocks))]
  ELSE [stock |-> Some(CombinedMapping(stock, global)), global |-> global,
        combined |-> CombinedMapping(stock, global)]

\* the stock_mapping property (lines 126-138): the combined mapping, and the
\* two mappings as the property leaves them (it loads them when
\* _stock_mapping is None)
stock_mapping(stock, global, file) ==
  IF IsNone(stock)
  THEN [stock    |-> LoadIndianStocks(stock, file),
        global   |-> Some(GlobalStocks),
        combined |-> CombinedMapping(LoadIndianStocks(stock, file), Some(GlobalStocks))]
  ELSE [stock |-> stock, global |-> global, combined |-> CombinedMapping(stock, global)]

\* line 29: pd.read_csv, then line 32, or the handler
ReadCsv ==
  /\ phase = "new"
  /\ IF csv.readable
     THEN /\ _stock_mapping' = Some(<< >>)
          /\ phase' = "loading"
          /\ UNCHANGED load_failed
     ELSE /\ _stock_mapping' = LoadFailure(_stock_mapping)
          /\ phase' = "globals"
          /\ load_failed' = TRUE
  /\ UNCHANGED <<_global_mapping, csv, row_idx, calls>>

\* one iteration of the loop of line 34, or the handler when the row raises
LoadRow ==
  /\ phase = "loading"
  /\ row_idx < Len(csv.rows)
  /\ IF RowRaises(csv.rows[row_idx + 1])
     THEN /\ _stock_mapping' = LoadFailure(_stock_mapping)
          /\ phase' = "globals"
          /\ load_failed' = TRUE
          /\ UNCHANGED row_idx
     ELSE /\ _stock_mapping' = Some(ProcessRow(Val(_stock_mapping), csv.rows[row_idx + 1]))
          /\ row_idx' = row_idx + 1
          /\ UNCHANGED <<phase, load_failed>>
  /\ UNCHANGED <<_global_mapping, csv, calls>>

\* the loop ends (line 72)
EndOfRows ==
  /\ phase = "loading"
  /\ row_idx = Len(csv.rows)
  /\ phase' = "globals"
  /\ UNCHANGED <<_stock_mapping, _global_mapping, csv, row_idx, load_failed, calls>>

\* _load_global_stocks (lines 79-124); __init__ returns
LoadGlobalStocks ==
  /\ phase = "globals"
  /\ _global_mapping' = Some(GlobalStocks)
  /\ phase' = "ready"
  /\ UNCHANGED <<_stock_mapping, csv, row_idx, load_failed, calls>>

\* a read of the stock_mapping property leaves the mappings as it left them
ReadProperty(sm) ==
  /\ _stock_mapping' = sm.stock
  /\ _global_mapping' = sm.global
  /\ UNCHANGED <<phase, csv, row_idx, load_failed>>

NoRead ==
  UNCHANGED <<_stock_mapping, _global_mapping, phase, csv, row_idx, load_failed>>

\* resolve_symbol(query, prefer_indian) is called
CallResolveSymbol(c, Q) ==
  /\ phase = "ready"
  /\ calls[c].op = "idle"
  /\ \E query \in Q, prefer_indian \in BOOLEAN :
       calls' = [calls EXCEPT ![c] =
                   EnterResolve([IdleFrame EXCEPT !.op = "resolve_symbol",
                                                  !.prefer_indian = prefer_indian], query)]
  /\ NoRead

\* smart_resolve(query, context) is called (lines 390-392)
CallSmartResolve(c, Q) ==
  /\ phase = "ready"
  /\ calls[c].op = "idle"
  /\ \E query \in Q, context \in Contexts :
       calls' = [calls EXCEPT ![c] =
                   EnterResolve([IdleFrame EXCEPT !.op = "smart_resolve",
                                                  !.prefer_indian = PreferIndian(context)],
                                query)]
  /\ NoRead

\* resolve_multiple_symbols(symbols_input, prefer_indian) is called (lines 333-342)
CallResolveMultiple(c, I) ==
  /\ phase = "ready"
  /\ calls[c].op = "idle"
  /\ \E symbols_input \in I, prefer_indian \in BOOLEAN :
       calls' = [calls EXCEPT ![c] =
                   NextOrReturn([IdleFrame EXCEPT !.op = "resolve_multiple_symbols",
                                                  !.prefer_indian = prefer_indian,
                                                  !.symbols_list = SymbolsList(symbols_input)],
                                NoAccumulators, 1)]
  /\ NoRead

\* add_indian_suffix(symbol) is called and returns; the stock_mapping
\* property is read (line 371) when the symbol has no exchange suffix yet
CallAddIndianSuffix(c, S) ==
  /\ phase = "ready"
  /\ calls[c].op = "idle"
  /\ \E symbol \in S, sm \in {stock_mapping(_stock_mapping, _global_mapping, csv)} :
       /\ calls' = [calls EXCEPT ![c] =
                      [IdleFrame EXCEPT !.op = "add_indian_suffix", !.pc = "done",
                                        !.query = symbol,
                                        !.ret = Some(add_indian_suffix(symbol, sm.combined))]]
       /\ IF HasIndianSuffix(Upper(symbol)) THEN NoRead ELSE ReadProperty(sm)

\* Step 1 of resolve_symbol, with the reply of the exact-ticker provider
StepTickerCheck(c, TR) ==
  /\ calls[c].pc = "ticker_check"
  /\ \E reply \in TR :
       calls' = [calls EXCEPT ![c] =
                   AfterStep([@ EXCEPT !.ticker_reply = Some(reply)], "TICKER_CHECK",
                             TickerCheck(calls[c].query, reply), "index_exact")]
  /\ NoRead

\* Step 2 of resolve_symbol
StepIndexExact(c) ==
  /\ calls[c].pc = "index_exact"
  /\ \E sm \in {stock_mapping(_stock_mapping, _global_mapping, csv)} :
       /\ calls' = [calls EXCEPT ![c] =
                      AfterStep([@ EXCEPT !.ticker_reply = None,
                                          !.stock_mapping = Some(sm.combined)],
                                "INDEX_EXACT",
                                IndexExact(calls[c].query, sm.combined), "index_fuzzy")]
       /\ ReadProperty(sm)

\* Step 3 of resolve_symbol
StepIndexFuzzy(c) ==
  /\ calls[c].pc = "index_fuzzy"
  /\ calls' = [calls EXCEPT ![c] =
                 AfterStep(@, "INDEX_FUZZY",
                           IndexFuzzy(calls[c].query, Val(calls[c].stock_mapping)),
                           "external_search")]
  /\ NoRead

\* Step 4 of resolve_symbol, with the reply of the search provider
StepExternalSearch(c, SR) ==
  /\ calls[c].pc = "external_search"
  /\ \E reply \in SR :
       calls' = [calls EXCEPT ![c] =
                   AfterStep([@ EXCEPT !.search_reply = Some(reply)], "EXTERNAL_SEARCH",
                             ExternalSearch(calls[c].query, calls[c].prefer_indian, reply),
                             "raised")]
  /\ NoRead

\* resolve_symbol has returned to resolve_symbol's caller
ContinueAfterResolve(c) ==
  /\ calls[c].pc = "returned"
  /\ calls' = [calls EXCEPT ![c] = AfterResolve(@)]
  /\ NoRead

\* the call is over
ReturnToCaller(c) ==
  /\ calls[c].pc = "done"
  /\ calls' = [calls EXCEPT ![c] = IdleFrame]
  /\ NoRead

\* the exception that left resolve_symbol leaves smart_resolve or
\* resolve_multiple_symbols too, which have no handler (lines 322-359), and
\* reaches the caller: the call is over
RaiseToCaller(c) ==
  /\ calls[c].pc = "raised"
  /\ calls' = [calls EXCEPT ![c] = IdleFrame]
  /\ NoRead

Init ==
  /\ _stock_mapping = None
  /\ _global_mapping = None
  /\ phase = "new"
  /\ csv \in SpecDatasets
  /\ row_idx = 0
  /\ load_failed = FALSE
  /\ calls = [c \in Callers |-> IdleFrame]

Next ==
  \/ ReadCsv
  \/ LoadRow
  \/ EndOfRows
  \/ LoadGlobalStocks
  \/ CallResolveSymbol("c1", Queries)
  \/ CallSmartResolve("c1", Queries)
  \/ CallResolveMultiple("c1", MultipleInputs)
  \/ CallAddIndianSuffix("c1", SuffixInputs)
  \/ StepTickerCheck("c1", TickerReplies)
  \/ StepIndexExact("c1")
  \/ StepIndexFuzzy("c1")
  \/ StepExternalSearch("c1", SearchReplies)
  \/ ContinueAfterResolve("c1")
  \/ ReturnToCaller("c1")
  \/ RaiseToCaller("c1")

Spec ==
  Init /\ [][Next]_vars

\* construction alone, on every dataset of at most MaxRows rows
InitBuild ==
  /\ _stock_mapping = None
  /\ _global_mapping = None
  /\ phase = "new"
  /\ csv \in BuildDatasets
  /\ row_idx = 0
  /\ load_failed = FALSE
  /\ calls = [c \in Callers |-> IdleFrame]

NextBuild ==
  \/ ReadCsv
  \/ LoadRow
  \/ EndOfRows
  \/ LoadGlobalStocks

SpecBuild ==
  InitBuild /\ [][NextBuild]_vars

\* two callers whose calls interleave step by step, on fewer inputs
ConcDatasets ==
  { Dataset(TRUE, <<Row(NameABLtd, TickerAB), Row(NameApple, TickerAPL)>>),
    Dataset(FALSE, << >>) }

ConcQueries ==
  {QueryApple, QueryAapl}

ConcTickerReplies ==
  { NoRecord, TickerReply(FALSE, << >>, << >>, Info("dict", FALSE, Some(SymAAPL))) }

ConcSearchReplies ==
  { SearchReply(TRUE, ClassConnectionError, ErrTimeout, "none", << >>),
    SearchReply(TRUE, ClassKeyboardInterrupt, ErrTimeout, "none", << >>),
    SearchReply(FALSE, << >>, << >>, "list", <<ItemLow, ItemHigh, ItemHighNS>>) }

InitConc ==
  /\ _stock_mapping = None
  /\ _global_mapping = None
  /\ phase = "new"
  /\ csv \in ConcDatasets
  /\ row_idx = 0
  /\ load_failed = FALSE
  /\ calls = [c \in Callers |-> IdleFrame]

NextConc ==
  \/ ReadCsv
  \/ LoadRow
  \/ EndOfRows
  \/ LoadGlobalStocks
  \/ \E c \in Callers :
       \/ CallResolveSymbol(c, ConcQueries)
       \/ CallSmartResolve(c, {QueryApple})
       \/ CallResolveMultiple(c, {InputBlank, QueryApple})
       \/ CallAddIndianSuffix(c, SuffixInputs)
       \/ StepTickerCheck(c, ConcTickerReplies)
       \/ StepIndexExact(c)
       \/ StepIndexFuzzy(c)
       \/ StepExternalSearch(c, ConcSearchReplies)
       \/ ContinueAfterResolve(c)
       \/ ReturnToCaller(c)
       \/ RaiseToCaller(c)

SpecConc ==
  InitConc /\ [][NextConc]_vars

(***************************************************************************)
(* The helper methods called on their own, after construction with a      *)
(* tickers.csv that could not be read, on every string of at most         *)
(* MaxQueryLen characters of QueryAlphabet.                               *)
(***************************************************************************)
MaxQueryLen ==
  4

QueryAlphabet ==
  {"a", "c", "o", " ", "."}

NormalizeInputs ==
  SeqsUpTo(QueryAlphabet, MaxQueryLen)

\* normalize_input(query) is called and returns (lines 140-147)
CallNormalizeInput(c, X) ==
  /\ phase = "ready"
  /\ calls[c].op = "idle"
  /\ \E query \in X :
       calls' = [calls EXCEPT ![c] =
                   [IdleFrame EXCEPT !.op = "normalize_input", !.pc = "done",
                                     !.query = query,
                                     !.ret = Some(normalize_input(query))]]
  /\ NoRead

InitPure ==
  /\ _stock_mapping = Some(<< >>)
  /\ _global_mapping = Some(GlobalStocks)
  /\ phase = "ready"
  /\ csv = Dataset(FALSE, << >>)
  /\ row_idx = 0
  /\ load_failed = TRUE
  /\ calls = [c \in Callers |-> IdleFrame]

NextPure ==
  \/ CallNormalizeInput("c1", NormalizeInputs)
  \/ ReturnToCaller("c1")

SpecPure ==
  InitPure /\ [][NextPure]_vars

(***************************************************************************)
(* Construction on every dataset of at most MaxRows rows, followed by     *)
(* calls of resolve_symbol whose query is a key of the index, the         *)
(* exact-ticker provider having no record for it.                         *)
(***************************************************************************)
NextRoundTrip ==
  \/ ReadCsv
  \/ LoadRow
  \/ EndOfRows
  \/ LoadGlobalStocks
  \/ CallResolveSymbol("c1", Keys(CombinedMapping(_stock_mapping, _global_mapping)))
  \/ StepTickerCheck("c1", {NoRecord})
  \/ StepIndexExact("c1")
  \/ ContinueAfterResolve("c1")
  \/ ReturnToCaller("c1")

SpecRoundTrip ==
  InitBuild /\ [][NextRoundTrip]_vars

(***************************************************************************)
(* Progress of the calls made after construction.  The steps of the      *)
(* program itself are taken when they can be (weak fairness).  Steps 2 and 3 are enabled exactly while the frame is *)
(* at them and always move it on, so weak fairness of each is the         *)
(* condition that the frame is again and again not at the step; it is     *)
(* written in that form.  Steps 1 and 4 call the provider with no timeout *)
(* (lines 169-170 and 237) and go on when the provider has replied:       *)
(* nothing in the code makes a reply arrive, so these two steps carry no  *)
(* fairness condition.                                                    *)
(***************************************************************************)
NextLive ==
  \/ CallResolveSymbol("c1", Queries)
  \/ CallSmartResolve("c1", ConcQueries)
  \/ StepTickerCheck("c1", TickerReplies)
  \/ StepIndexExact("c1")
  \/ StepIndexFuzzy("c1")
  \/ StepExternalSearch("c1", ConcSearchReplies)
  \/ ContinueAfterResolve("c1")
  \/ ReturnToCaller("c1")
  \/ RaiseToCaller("c1")

FairnessLive ==
  /\ []<>(calls["c1"].pc # "index_exact")
  /\ []<>(calls["c1"].pc # "index_fuzzy")
  /\ WF_vars(ContinueAfterResolve("c1"))
  /\ WF_vars(ReturnToCaller("c1"))
  /\ WF_vars(RaiseToCaller("c1"))

SpecLive ==
  InitPure /\ [][NextLive]_vars /\ FairnessLive

\* the scores the statements name, as floats
OneHalf ==
  Literal(5, 10)

SixTenths ==
  Literal(6, 10)

EightyFiveHundredths ==
  Literal(85, 100)

NinetyFiveHundredths ==
  Literal(95, 100)

One ==
  Float(1)

(***************************************************************************)
(* Properties.                                                            *)
(***************************************************************************)
\* the stages of resolve_symbol, in the order of the source
StageOrder ==
  <<"TICKER_CHECK", "INDEX_EXACT", "INDEX_FUZZY", "EXTERNAL_SEARCH">>

\* the step of resolve_symbol the frame's pc announces has this position
PcStage(pc) ==
  CASE pc = "ticker_check" -> 1
    [] pc = "index_exact" -> 2
    [] pc = "index_fuzzy" -> 3
    [] pc = "external_search" -> 4
    [] OTHER -> 0

\* the stages a frame has entered are the first stages of StageOrder, and
\* every stage before the last one entered fell through
StagesInOrder(f) ==
  /\ Len(f.trace) <= Len(StageOrder)
  /\ \A i \in 1..Len(f.trace) : f.trace[i][1] = StageOrder[i]
  /\ \A i \in 1..(Len(f.trace) - 1) : f.trace[i][2] = "fallthrough"

\* the three terminal states of a call
IsResolved(result) ==
  ~IsNone(result.resolved_symbol)

IsAmbiguous(result) ==
  IsNone(result.resolved_symbol) /\ result.suggestions # << >>

IsUnresolved(result) ==
  IsNone(result.resolved_symbol) /\ result.suggestions = << >>

\* the stages of every call of resolve_symbol are entered in the order
\* TICKER_CHECK, INDEX_EXACT, INDEX_FUZZY, EXTERNAL_SEARCH, a stage only
\* after every earlier stage fell through without a hit, and the search
\* provider has been called only when the three earlier stages missed
StageOrderHolds ==
  \A c \in Callers :
    LET f == calls[c]
    IN  /\ StagesInOrder(f)
        /\ PcStage(f.pc) > 0 =>
             /\ Len(f.trace) = PcStage(f.pc) - 1
             /\ IsNone(f.result)
        /\ ~IsNone(f.search_reply) <=> Len(f.trace) = 4
        /\ f.pc = "returned" =>
             /\ f.trace # << >>
             /\ f.trace[Len(f.trace)][2] = "return"

\* C1: in every call of resolve_symbol the stages are entered in the order
\* TICKER_CHECK, INDEX_EXACT, INDEX_FUZZY, EXTERNAL_SEARCH, a stage only
\* after every earlier stage fell through without a hit; the search provider
\* has been called only when the three earlier stages missed; and every call
\* ends with a result, at the stage that returns and at the external search
\* at the latest: no call is left by an exception, and the result is in
\* exactly one of the states RESOLVED, AMBIGUOUS, UNRESOLVED.
C1_StagesInFixedOrder ==
  /\ StageOrderHolds
  /\ \A c \in Callers :
       LET f == calls[c]
       IN  /\ f.pc # "raised"
           /\ Len(f.trace) = 4 => f.trace[4][2] = "return"
           /\ f.pc = "returned" =>
                /\ ~IsNone(f.result)
                /\ Cardinality({k \in 1..3 :
                                  <<IsResolved(Val(f.result)), IsAmbiguous(Val(f.result)),
                                    IsUnresolved(Val(f.result))>>[k]}) = 1

\* the call of the search provider ended with an exception whose class does
\* not derive from Exception: KeyboardInterrupt, SystemExit, GeneratorExit
SearchInterrupted(f) ==
  /\ ~IsNone(f.search_reply)
  /\ Val(f.search_reply).raises
  /\ ~IsException(Val(f.search_reply).exc_type)

\* an exception leaves a call in one case only: the call of the search
\* provider raised an exception whose class does not derive from Exception,
\* which the handler of line 296 does not catch; the same exception raised
\* during the exact-ticker lookup is caught (line 173), and so is every
\* Exception raised by either provider or by a malformed payload
OnlyInterruptsEscape ==
  \A c \in Callers :
    LET f == calls[c]
    IN  /\ f.pc = "raised" <=> SearchInterrupted(f)
        /\ f.pc = "raised" =>
             /\ f.exc_type = Some(Val(f.search_reply).exc_type)
             /\ f.exc = Some(Val(f.search_reply).exc)
             /\ f.trace[Len(f.trace)] = <<"EXTERNAL_SEARCH", "raise">>
             /\ IsNone(f.result)
        /\ f.pc # "raised" => IsNone(f.exc)

\* C2: no exception escapes resolve_symbol, smart_resolve or
\* resolve_multiple_symbols, whatever the query, the index and the replies of
\* the two providers (a reply, no reply, a malformed payload, an exception
\* raised): resolve_symbol always returns a (resolved_symbol, suggestions,
\* message) result, and the two wrappers return their pair.
C2_NoExceptionEscapes ==
  \A c \in Callers :
    LET f == calls[c]
    IN  /\ f.pc # "raised"
        /\ IsNone(f.exc)
        /\ f.pc = "returned" =>
             /\ ~IsNone(f.result)
             /\ DOMAIN Val(f.result) = {"resolved_symbol", "suggestions", "message"}
        /\ f.pc = "done" => ~IsNone(f.ret)

\* the text of the message has this text in it: one of the values
\* interpolated into the template has
MessageContains(message, text) ==
  \E i \in 1..Len(message.args) : Contains(message.args[i], text)

\* C3: when the search provider raises, the result of resolve_symbol has no
\* resolved symbol, no suggestions, and a failure message that does not
\* contain the text of the provider's error.
C3_SearchErrorTextHidden ==
  \A c \in Callers :
    LET f == calls[c]
    IN  (f.pc = "returned" /\ ~IsNone(f.search_reply) /\ Val(f.search_reply).raises) =>
          /\ IsNone(Val(f.result).resolved_symbol)
          /\ Val(f.result).suggestions = << >>
          /\ Val(f.result).message.mark = "cross"
          /\ ~MessageContains(Val(f.result).message, Val(f.search_reply).exc)

\* the reply of the exact-ticker provider is a record with a 'symbol' that
\* is not empty
ValidRecord(reply) ==
  /\ ~reply.raises
  /\ reply.info.kind = "dict"
  /\ ~reply.info.empty
  /\ ~IsNone(reply.info.symbol)
  /\ Val(reply.info.symbol) # << >>

\* C4: when the exact-ticker provider has returned a record with a valid
\* symbol, resolve_symbol has returned at once: the resolved symbol is the
\* upper-cased input, there are no suggestions, TICKER_CHECK is the only
\* stage entered, the index was not read and the search provider not called.
C4_TickerHitReturnsUpperInput ==
  \A c \in Callers :
    LET f == calls[c]
    IN  (~IsNone(f.ticker_reply) /\ ValidRecord(Val(f.ticker_reply))) =>
          /\ f.pc \in {"returned", "done"}
          /\ f.trace = << <<"TICKER_CHECK", "return">> >>
          /\ Val(f.result).resolved_symbol = Some(Upper(f.query))
          /\ Val(f.result).suggestions = << >>
          /\ IsNone(f.stock_mapping)
          /\ IsNone(f.search_reply)

\* resolve_symbol has returned AAPL for the query "aapl" on a valid record
C4_Witness ==
  \E c \in Callers :
    /\ calls[c].pc = "returned"
    /\ calls[c].query = QueryAapl
    /\ ~IsNone(calls[c].ticker_reply)
    /\ ValidRecord(Val(calls[c].ticker_reply))
    /\ Val(calls[c].result).resolved_symbol = Some(SymAAPL)

\* the call to the exact-ticker provider failed: it raised, or its payload
\* is not a dict
TickerFailure(reply) ==
  reply.raises \/ reply.info.kind = "other"

\* the frame as it was when Step 1 started
BeforeTickerCheck(f) ==
  [f EXCEPT !.pc = "ticker_check", !.trace = << >>, !.ticker_reply = None]

\* C5: a failure of the exact-ticker provider is a miss of Step 1: the next
\* step is INDEX_EXACT, and the call is in the state in which the reply "no
\* record" would have left it (the reply itself apart), so that the steps
\* that follow, which do not read the reply, give the same final result.
C5_TickerFailureIsAMiss ==
  \A c \in Callers :
    LET f == calls[c]
    IN  (~IsNone(f.ticker_reply) /\ TickerFailure(Val(f.ticker_reply))) =>
          /\ f.pc = "index_exact"
          /\ [f EXCEPT !.ticker_reply = None]
               = [AfterStep(BeforeTickerCheck(f), "TICKER_CHECK",
                            TickerCheck(f.query, NoRecord), "index_exact")
                    EXCEPT !.ticker_reply = None]

\* Step 1 has run on a reply that raised, and INDEX_EXACT is next
C5_Witness ==
  \E c \in Callers :
    /\ calls[c].pc = "index_exact"
    /\ ~IsNone(calls[c].ticker_reply)
    /\ Val(calls[c].ticker_reply).raises
    /\ calls[c].trace = << <<"TICKER_CHECK", "fallthrough">> >>

\* the index as the stock_mapping property returns it in this state
Index ==
  CombinedMapping(_stock_mapping, _global_mapping)

\* the key of the index Step 2 finds for the query: the normalized query,
\* or failing that the raw lowercase query; None when neither is a key
DirectKey(query, index) ==
  IF DictHas(index, normalize_input(query)) THEN Some(normalize_input(query))
  ELSE IF DictHas(index, Lower(query)) THEN Some(Lower(query))
  ELSE None

\* C6: once the ticker check has missed and Step 2 has run, if the
\* normalized query, or failing that the raw lowercase query, is a key of the
\* index, then resolve_symbol has returned that key's ticker, with no
\* suggestions, and INDEX_FUZZY was not entered.
C6_DirectHitSkipsFuzzy ==
  \A c \in Callers :
    LET f   == calls[c]
        key == DirectKey(f.query, Index)
    IN  (Len(f.trace) >= 2 /\ ~IsNone(key)) =>
          /\ f.trace = << <<"TICKER_CHECK", "fallthrough">>, <<"INDEX_EXACT", "return">> >>
          /\ f.pc \in {"returned", "done"}
          /\ Val(f.result).resolved_symbol = Some(DictGet(Index, Val(key)))
          /\ Val(f.result).suggestions = << >>

\* "A & B" has returned AB.NS through the raw lowercase key "a & b", its
\* normalized form "a b" being no key, although the fuzzy matcher finds a
\* ticker for it
C6_Witness ==
  \E c \in Callers :
    /\ calls[c].pc = "returned"
    /\ calls[c].query = QueryAandB
    /\ ~DictHas(Index, normalize_input(QueryAandB))
    /\ DictHas(Index, Lower(QueryAandB))
    /\ calls[c].trace = << <<"TICKER_CHECK", "fallthrough">>, <<"INDEX_EXACT", "return">> >>
    /\ Val(calls[c].result).resolved_symbol = Some(TickerAB)
    /\ BestMatchFound(FuzzyScan(normalize_input(QueryAandB), Index))

\* C7: while the rows are loaded, a key that is in the reference mapping
\* keeps its ticker when a further row is processed (first writer wins).
C7_FirstWriterWins ==
  [][(phase = "loading" /\ row_idx' = row_idx + 1) =>
       \A i \in 1..Len(Val(_stock_mapping)) :
         /\ DictHas(Val(_stock_mapping'), Val(_stock_mapping)[i][1])
         /\ DictGet(Val(_stock_mapping'), Val(_stock_mapping)[i][1])
              = Val(_stock_mapping)[i][2]]_vars

\* the dict of an Optional dict, {} for None
DictOf(o) ==
  IF IsNone(o) THEN << >> ELSE Val(o)

\* C8: once the resolver is constructed, the combined index has the keys of
\* the reference mapping and of the curated table; a key of the curated
\* table has the curated ticker, also when the reference mapping has the key
\* too, and any other key has the ticker of the reference mapping; and this
\* is the index a call of resolve_symbol reads.
C8_CuratedOverridesReference ==
  phase = "ready" =>
    LET stock  == DictOf(_stock_mapping)
        global == DictOf(_global_mapping)
        index  == Index
    IN  /\ Keys(index) = Keys(stock) \cup Keys(global)
        /\ \A k \in Keys(index) :
             DictGet(index, k) = IF DictHas(global, k) THEN DictGet(global, k)
                                 ELSE DictGet(stock, k)
        /\ \A c \in Callers :
             ~IsNone(calls[c].stock_mapping) => Val(calls[c].stock_mapping) = index

\* "apple" is APL.BO in the reference mapping and AAPL in the curated table,
\* and resolve_symbol has returned AAPL for "Apple" from the index
C8_Witness ==
  /\ phase = "ready"
  /\ DictHas(DictOf(_stock_mapping), Lower(NameApple))
  /\ DictGet(DictOf(_stock_mapping), Lower(NameApple)) = TickerAPL
  /\ DictGet(DictOf(_global_mapping), Lower(NameApple)) = SymAAPL
  /\ \E c \in Callers :
       /\ calls[c].pc = "returned"
       /\ calls[c].query = QueryApple
       /\ calls[c].trace[Len(calls[c].trace)] = <<"INDEX_EXACT", "return">>
       /\ Val(calls[c].result).resolved_symbol = Some(SymAAPL)

\* C9: when the load of the reference dataset has failed (the file cannot
\* be read, or a row lacks a column), construction goes on: the reference
\* mapping is empty, the curated table is loaded next, and the index of the
\* constructed resolver is exactly the curated table.
C9_LoadFailureLeavesCurated ==
  load_failed =>
    /\ _stock_mapping = Some(<< >>)
    /\ phase \in {"globals", "ready"}
    /\ phase = "globals" => ENABLED LoadGlobalStocks
    /\ phase = "ready" => Index = GlobalStocks

\* the resolver is constructed after the second row of the file raised, the
\* first one having been loaded
C9_Witness ==
  /\ phase = "ready"
  /\ load_failed
  /\ row_idx = 1
  /\ Index = GlobalStocks

\* C10: once the resolver is constructed, no step of any call, however the
\* calls of the callers interleave, changes the reference mapping or the
\* curated mapping, and the resolver stays constructed.
C10_MappingsNeverChange ==
  [][phase = "ready" =>
       /\ _stock_mapping' = _stock_mapping
       /\ _global_mapping' = _global_mapping
       /\ phase' = "ready"]_vars

\* two calls are in progress at once, each having read the index, over a
\* reference mapping that is not empty
C10_Witness ==
  /\ phase = "ready"
  /\ DictOf(_stock_mapping) # << >>
  /\ calls["c1"].pc = "index_fuzzy"
  /\ calls["c2"].pc = "external_search"

\* the frame has returned from the stage, which was its last
ReturnedAt(f, stage) ==
  /\ f.pc \in {"returned", "done"}
  /\ f.trace # << >>
  /\ f.trace[Len(f.trace)] = <<stage, "return">>

\* C11: when resolve_symbol has resolved through the fuzzy matcher, the
\* company its message names is the index variant whose score won the scan,
\* and the strategy it names is the one that produced that score.
C11_FuzzyMessageNamesWinner ==
  \A c \in Callers :
    LET f == calls[c]
    IN  (f.op = "resolve_symbol" /\ f.pc = "returned" /\ ReturnedAt(f, "INDEX_FUZZY")) =>
          LET best == FuzzyScan(normalize_input(f.query), Index)
          IN  /\ Val(f.result).message.args[3] = Title(Val(best.variant))
              /\ Val(f.result).message.strategy = best.type

\* the search provider replied with a list of candidates that are all
\* dictionaries with a string symbol
Candidates(f) ==
  IF IsNone(f.search_reply) \/ Val(f.search_reply).raises
     \/ Val(f.search_reply).payload.kind # "list"
     \/ \E i \in DOMAIN Val(f.search_reply).payload.items :
          \/ Val(f.search_reply).payload.items[i].kind = "other"
          \/ Val(f.search_reply).payload.items[i].symbol_null
  THEN << >>
  ELSE Val(f.search_reply).payload.items

\* the suggestions are in order of non-increasing score
Ranked(suggestions) ==
  \A i \in 1..(Len(suggestions) - 1) :
    ~ScoreGT(suggestions[i + 1].score, suggestions[i].score)

\* C12: when the external search has returned candidates and none of them
\* has a boosted score above 0.6, resolve_symbol returns no resolved_symbol
\* and a non-empty ranked suggestion list, under the message that asks to
\* review the suggestions: the top candidate is not returned as resolved.
C12_NoAutoPickBelowThreshold ==
  \A c \in Callers :
    LET f == calls[c]
    IN  ( /\ f.pc = "returned"
          /\ ReturnedAt(f, "EXTERNAL_SEARCH")
          /\ Candidates(f) # << >>
          /\ \A i \in DOMAIN Candidates(f) :
               ~ScoreGT(Suggestion(normalize_input(f.query), f.prefer_indian,
                                   Candidates(f)[i]).score, SixTenths) ) =>
          /\ IsNone(Val(f.result).resolved_symbol)
          /\ Val(f.result).suggestions # << >>
          /\ Ranked(Val(f.result).suggestions)
          /\ Val(f.result).message.mark = "magnifier"

\* "aapl" with the regional preference met three candidates, the best one
\* scoring 0.5, and returned them ranked with no resolved symbol
C12_Witness ==
  \E c \in Callers :
    /\ calls[c].pc = "returned"
    /\ ReturnedAt(calls[c], "EXTERNAL_SEARCH")
    /\ calls[c].prefer_indian
    /\ Candidates(calls[c]) = <<ItemLowGlobal, ItemLow, ItemWeak>>
    /\ IsNone(Val(calls[c].result).resolved_symbol)
    /\ Len(Val(calls[c].result).suggestions) = 3
    /\ Val(calls[c].result).suggestions[1].symbol = SymAPX
    /\ Val(calls[c].result).suggestions[1].score = OneHalf

\* C13: when the external search has found no candidate acceptable for
\* auto-resolution, the suggestion list returned holds every candidate taken
\* from the provider, that is each of the first 10 of its reply.
C13_AllCandidatesReturned ==
  \A c \in Callers :
    LET f     == calls[c]
        taken == Take(Candidates(f), 10)
    IN  ( /\ f.pc = "returned"
          /\ ReturnedAt(f, "EXTERNAL_SEARCH")
          /\ taken # << >>
          /\ IsNone(Val(f.result).resolved_symbol) ) =>
          /\ Len(Val(f.result).suggestions) = Len(taken)
          /\ \A i \in DOMAIN taken :
               \E j \in DOMAIN Val(f.result).suggestions :
                 Val(f.result).suggestions[j] =
                   Suggestion(normalize_input(f.query), f.prefer_indian, taken[i])

\* C14: when the ticker check has missed, the query has no direct and no
\* fuzzy match in the index, and the external search has returned zero
\* results (None or an empty list), resolve_symbol returns no
\* resolved_symbol, an empty suggestion list and a failure message that is
\* not empty.
C14_ZeroResultsUnresolved ==
  \A c \in Callers :
    LET f == calls[c]
    IN  ( /\ f.pc = "returned"
          /\ ReturnedAt(f, "EXTERNAL_SEARCH")
          /\ ~Val(f.search_reply).raises
          /\ \/ Val(f.search_reply).payload.kind = "none"
             \/ /\ Val(f.search_reply).payload.kind = "list"
                /\ Val(f.search_reply).payload.items = << >> ) =>
          /\ f.trace = << <<"TICKER_CHECK", "fallthrough">>, <<"INDEX_EXACT", "fallthrough">>,
                          <<"INDEX_FUZZY", "fallthrough">>, <<"EXTERNAL_SEARCH", "return">> >>
          /\ IsNone(Val(f.result).resolved_symbol)
          /\ Val(f.result).suggestions = << >>
          /\ Val(f.result).message.mark = "cross"
          /\ Val(f.result).message.tmpl # ""
          /\ Val(f.result).message.args = <<f.query>>

\* "aapl" missed the three first stages, the search provider returned an
\* empty list, and the call returned the failure message with no suggestion
C14_Witness ==
  \E c \in Callers :
    /\ calls[c].pc = "returned"
    /\ calls[c].query = QueryAapl
    /\ Len(calls[c].trace) = 4
    /\ ~Val(calls[c].search_reply).raises
    /\ Val(calls[c].search_reply).payload.kind = "list"
    /\ Val(calls[c].search_reply).payload.items = << >>
    /\ Val(calls[c].result).message.mark = "cross"
    /\ Val(calls[c].result).suggestions = << >>

\* the result has a resolved_symbol exactly when its message is marked as a
\* success, and otherwise carries the failure or the ambiguity mark
MarkAgrees(result) ==
  /\ ~IsNone(result.resolved_symbol) <=> result.message.mark = "check"
  /\ IsNone(result.resolved_symbol) => result.message.mark \in {"cross", "magnifier"}

\* C15: in every result returned by resolve_symbol, to its caller or to
\* resolve_multiple_symbols for one token, resolved_symbol is present (not
\* None) if and only if the message is success-marked; when it is absent the
\* message is a failure or an ambiguity message.
C15_ResolvedIffSuccessMessage ==
  \A c \in Callers :
    LET f == calls[c]
    IN  /\ ~IsNone(f.result) => MarkAgrees(Val(f.result))
        /\ \A i \in DOMAIN f.per_token : MarkAgrees(f.per_token[i].result)

\* the external search resolved a query and returned alternates with it,
\* under a success message
C15_Witness ==
  \E c \in Callers :
    /\ calls[c].pc = "returned"
    /\ ReturnedAt(calls[c], "EXTERNAL_SEARCH")
    /\ ~IsNone(Val(calls[c].result).resolved_symbol)
    /\ Len(Val(calls[c].result).suggestions) >= 2
    /\ Val(calls[c].result).message.mark = "check"

\* C16: in every result returned by resolve_symbol the suggestion list has
\* at most 10 elements and is in order of non-increasing score.
C16_SuggestionsBoundedAndRanked ==
  \A c \in Callers :
    LET f == calls[c]
    IN  /\ ~IsNone(f.result) =>
             /\ Len(Val(f.result).suggestions) <= 10
             /\ Ranked(Val(f.result).suggestions)
        /\ \A i \in DOMAIN f.per_token :
             /\ Len(f.per_token[i].result.suggestions) <= 10
             /\ Ranked(f.per_token[i].result.suggestions)

\* the provider replied with eleven candidates, the first of them scoring
\* less than the third, and the call returned a ranked list of suggestions
C16_Witness ==
  \E c \in Callers :
    /\ calls[c].pc = "returned"
    /\ ReturnedAt(calls[c], "EXTERNAL_SEARCH")
    /\ Len(Candidates(calls[c])) = 11
    /\ Len(Val(calls[c].result).suggestions) > 1
    /\ Val(calls[c].result).suggestions[1].symbol = SymAPX
    /\ Candidates(calls[c])[1].symbol = Some(SymZZ)

\* C17: every Suggestion produced by the external-search step has a score
\* within [0, 1], whatever the similarity of the names, the region of the
\* candidate and the regional-preference flag.
C17_ScoreWithinUnitInterval ==
  \A c \in Callers :
    LET f == calls[c]
    IN  (f.pc = "returned" /\ ReturnedAt(f, "EXTERNAL_SEARCH")) =>
          \A i \in DOMAIN Val(f.result).suggestions :
            LET score == Val(f.result).suggestions[i].score
            IN  /\ ~ScoreGT(Zero, score)
                /\ ~ScoreGT(score, One)

\* the similarity of the query to the names of the candidate, before the
\* regional boost (lines 253-257)
RawSimilarity(normalized_query, item) ==
  MaxScore(similarity(normalized_query, Lower(OrElse(item.shortname, << >>))),
           similarity(normalized_query, Lower(OrElse(item.longname, << >>))))

\* the positions of the suggestion list that hold the candidate's symbol
PositionsOf(suggestions, item) ==
  {j \in DOMAIN suggestions : suggestions[j].symbol = OrElse(item.symbol, << >>)}

\* C18: with the regional preference requested, of two candidates of the
\* external search that have the same raw name similarity, one regional
\* (symbol ending in .NS or .BO) and one not, the regional one comes before
\* the other one in the suggestion list returned, whatever their order in
\* the reply of the provider.
C18_RegionalRanksFirst ==
  \A c \in Callers :
    LET f     == calls[c]
        nq    == normalize_input(f.query)
        taken == Take(Candidates(f), 10)
    IN  (f.pc = "returned" /\ ReturnedAt(f, "EXTERNAL_SEARCH") /\ f.prefer_indian) =>
          \A a, b \in DOMAIN taken :
            LET sa == Suggestion(nq, TRUE, taken[a])
                sb == Suggestion(nq, TRUE, taken[b])
            IN  ( /\ sa.is_indian
                  /\ ~sb.is_indian
                  /\ RawSimilarity(nq, taken[a]) = RawSimilarity(nq, taken[b]) ) =>
                  \A i \in PositionsOf(Val(f.result).suggestions, taken[a]) :
                    \A j \in PositionsOf(Val(f.result).suggestions, taken[b]) : i < j

\* the token is not the empty string (line 339)
NonEmptyToken(token) ==
  Truthy(token)

\* resolve_symbol resolved the token of this entry of the batch
ResolvedEntry(entry) ==
  Resolved(entry.result)

\* the tickers the entries contribute, in order
Tickers(entries) ==
  [i \in 1..Len(entries) |-> Val(entries[i].result.resolved_symbol)]

\* C19: an unresolved token does not abort the batch.  When
\* resolve_multiple_symbols has returned, the tokens passed through
\* resolve_symbol are the non-empty tokens of the input, each one once and in
\* order; the list returned holds the ticker of each resolved token, in
\* order; and for each unresolved token the message has the line that
\* reports the token by name.
C19_BatchSurvivesUnresolved ==
  \A c \in Callers :
    LET f == calls[c]
    IN  (f.op = "resolve_multiple_symbols" /\ f.pc = "done") =>
          /\ [i \in 1..Len(f.per_token) |-> f.per_token[i].token]
               = SelectSeq(f.symbols_list, NonEmptyToken)
          /\ Val(f.ret).resolved_symbols = Tickers(SelectSeq(f.per_token, ResolvedEntry))
          /\ \A i \in DOMAIN f.per_token :
               ~ResolvedEntry(f.per_token[i]) =>
                 \E k \in DOMAIN Val(f.ret).message.lines :
                   Val(f.ret).message.lines[k] =
                     Msg("cross", "Could not resolve '{0}'", <<f.per_token[i].token>>, "", 0)

\* "aapl,,appl" has returned: "aapl" was not resolved and is reported, and
\* "appl", the token after it, was resolved and contributes its ticker
C19_Witness ==
  \E c \in Callers :
    /\ calls[c].op = "resolve_multiple_symbols"
    /\ calls[c].pc = "done"
    /\ calls[c].symbols_list = <<QueryAapl, << >>, QueryAppl>>
    /\ Len(calls[c].per_token) = 2
    /\ ~ResolvedEntry(calls[c].per_token[1])
    /\ ResolvedEntry(calls[c].per_token[2])
    /\ Val(calls[c].ret).resolved_symbols = <<SymAAPL>>
    /\ Val(calls[c].ret).message.lines[1] =
         Msg("cross", "Could not resolve '{0}'", <<QueryAapl>>, "", 0)

\* the suggestion lists of the unresolved entries, concatenated in order
RECURSIVE UnresolvedSuggestions(_)
UnresolvedSuggestions(entries) ==
  IF entries = << >> THEN << >>
  ELSE (IF ResolvedEntry(Head(entries)) THEN << >> ELSE Head(entries).result.suggestions)
       \o UnresolvedSuggestions(Tail(entries))

\* C20: when resolve_multiple_symbols has returned, its combined suggestion
\* block is the table of the suggestion lists of the tokens that were not
\* resolved, concatenated in token order: no suggestion that came with a
\* resolved token is in it.
C20_BlockFromUnresolvedOnly ==
  \A c \in Callers :
    LET f == calls[c]
    IN  (f.op = "resolve_multiple_symbols" /\ f.pc = "done") =>
          Val(f.ret).message.table = format_suggestions(UnresolvedSuggestions(f.per_token))

\* "aapl,aapl" has returned: the first token was resolved by the external
\* search, which gave alternates with it, the second one was not resolved,
\* and the block holds the suggestions of the second token only
C20_Witness ==
  \E c \in Callers :
    /\ calls[c].op = "resolve_multiple_symbols"
    /\ calls[c].pc = "done"
    /\ Len(calls[c].per_token) = 2
    /\ ResolvedEntry(calls[c].per_token[1])
    /\ Len(calls[c].per_token[1].result.suggestions) >= 2
    /\ ~ResolvedEntry(calls[c].per_token[2])
    /\ calls[c].per_token[2].result.suggestions # << >>
    /\ Val(calls[c].ret).message.table
         = format_suggestions(calls[c].per_token[2].result.suggestions)
    /\ Val(calls[c].ret).message.table
         # format_suggestions(calls[c].per_token[1].result.suggestions
                              \o calls[c].per_token[2].result.suggestions)

\* the line of the report for one entry of the batch: the message of
\* resolve_symbol for a resolved token, the report by name for an unresolved
\* one
LineOf(entry) ==
  IF ResolvedEntry(entry) THEN entry.result.message
  ELSE Msg("cross", "Could not resolve '{0}'", <<entry.token>>, "", 0)

\* the positions of the input list whose token is not empty, in order
RECURSIVE TokenPositions(_, _)
TokenPositions(symbols_list, i) ==
  IF i > Len(symbols_list) THEN << >>
  ELSE (IF NonEmptyToken(symbols_list[i]) THEN <<i>> ELSE << >>)
       \o TokenPositions(symbols_list, i + 1)

\* C21: when resolve_multiple_symbols has returned, the lines of its report
\* are the lines of the tokens in the order of the tokens in the input, one
\* line for each token, and the tickers of its list are those of the resolved
\* tokens in the order of the tokens in the input, whatever each resolution
\* gave.
C21_ReportInTokenOrder ==
  \A c \in Callers :
    LET f   == calls[c]
        pos == TokenPositions(f.symbols_list, 1)
    IN  (f.op = "resolve_multiple_symbols" /\ f.pc = "done") =>
          /\ Len(f.per_token) = Len(pos)
          /\ \A k \in DOMAIN pos : f.per_token[k].token = f.symbols_list[pos[k]]
          /\ Val(f.ret).message.lines = [k \in 1..Len(f.per_token) |-> LineOf(f.per_token[k])]
          /\ \A i, j \in DOMAIN Val(f.ret).resolved_symbols :
               i < j =>
                 \E a, b \in DOMAIN f.per_token :
                   /\ a < b
                   /\ ResolvedEntry(f.per_token[a])
                   /\ ResolvedEntry(f.per_token[b])
                   /\ Val(f.per_token[a].result.resolved_symbol) = Val(f.ret).resolved_symbols[i]
                   /\ Val(f.per_token[b].result.resolved_symbol) = Val(f.ret).resolved_symbols[j]

\* "Apple, aapl" has returned with two different tickers and two lines, the
\* ticker and the line of "Apple" before those of "aapl"
C21_Witness ==
  \E c \in Callers :
    /\ calls[c].op = "resolve_multiple_symbols"
    /\ calls[c].pc = "done"
    /\ calls[c].symbols_list = <<QueryApple, QueryAapl>>
    /\ Len(Val(calls[c].ret).resolved_symbols) = 2
    /\ Val(calls[c].ret).resolved_symbols[1] # Val(calls[c].ret).resolved_symbols[2]
    /\ Len(Val(calls[c].ret).message.lines) = 2
    /\ Val(calls[c].ret).message.lines[1].args[1] = QueryApple
    /\ Val(calls[c].ret).message.lines[2].args[1] = QueryAapl

\* C22: normalize_input is idempotent: what it returns for a string is
\* returned unchanged when it is normalized again.
C22_NormalizeIdempotent ==
  \A c \in Callers :
    LET f == calls[c]
    IN  (f.op = "normalize_input" /\ f.pc = "done") =>
          normalize_input(Val(f.ret)) = Val(f.ret)

\* C23: a call of resolve_symbol whose query is exactly a key stored in the
\* index, the ticker check having missed, returns the ticker stored under
\* that key.
C23_StoredKeyRoundTrip ==
  \A c \in Callers :
    LET f == calls[c]
    IN  ( /\ f.op = "resolve_symbol"
          /\ f.pc = "returned"
          /\ f.trace[1] = <<"TICKER_CHECK", "fallthrough">>
          /\ DictHas(Index, f.query) ) =>
          Val(f.result).resolved_symbol = Some(DictGet(Index, f.query))

\* C24: a call of resolve_symbol does not block for ever: once it is in one
\* of its four stages it eventually ends (it returns, or an exception leaves
\* it), also when the exact-ticker provider or the search provider does not
\* reply.
C24_ResolveEventuallyReturns ==
  \A c \in Callers :
    (PcStage(calls[c].pc) > 0) ~> (calls[c].pc \in {"returned", "raised"})

\* the strategies in the order the scan tries them on one entry
StrategyOrder ==
  <<"word_match", "start_match", "similarity">>

\* the score strategy number s gives the entry for the query, None when the
\* strategy does not apply to it
CandidateScore(normalized_query, company_name, s) ==
  IF s = 1
  THEN IF WordsMatched(Split(normalized_query), Split(company_name))
            = Len(Split(normalized_query))
       THEN Some(WordMatchScore(Len(Split(normalized_query)), Len(Split(company_name))))
       ELSE None
  ELSE IF s = 2
  THEN IF StartsWith(company_name, normalized_query) THEN Some(StartMatchScore) ELSE None
  ELSE IF ScoreGT(similarity(normalized_query, company_name), SimilarityThreshold)
       THEN Some(similarity(normalized_query, company_name))
       ELSE None

\* the candidates of a scan: for each entry that has one, its position, the
\* first strategy that gives it its best score, and that score
ScanCandidates(normalized_query, index) ==
  LET at(i) == [s \in 1..3 |-> CandidateScore(normalized_query, index[i][1], s)]
      top(sc) == CHOOSE s \in {t \in 1..3 : ~IsNone(sc[t])} :
                   \A t \in {u \in 1..3 : ~IsNone(sc[u])} :
                     \/ ScoreGT(Val(sc[s]), Val(sc[t]))
                     \/ (Val(sc[s]) = Val(sc[t]) /\ s <= t)
  IN  { [entry |-> i, strategy |-> top(at(i)), score |-> Val(at(i)[top(at(i))])] :
          i \in {j \in 1..Len(index) : \E s \in 1..3 : ~IsNone(at(j)[s])} }

\* C25: in the fuzzy scan a candidate replaces the running best only when
\* its score is strictly greater.  So when Step 3 is over, either no entry
\* had a candidate and the step fell through, or the ticker returned is that
\* of a candidate whose score is the maximum over all entries and
\* strategies, and among the candidates of that score it is the first one
\* found: the first entry in the order of the index and, for that entry, the
\* first strategy in the order containment, prefix, similarity.
C25_FirstMaximumWins ==
  \A c \in Callers :
    LET f == calls[c]
    IN  ( /\ Len(f.trace) >= 3
          /\ f.pc \in {"external_search", "returned"}
          /\ f.trace[Len(f.trace)][1] = "INDEX_FUZZY" ) =>
          LET cands == ScanCandidates(normalize_input(f.query), Index)
          IN  IF cands = {}
              THEN f.pc = "external_search"
              ELSE LET w == CHOOSE x \in cands :
                              \A y \in cands :
                                \/ ScoreGT(x.score, y.score)
                                \/ (x.score = y.score /\ x.entry <= y.entry)
                   IN  /\ f.pc = "returned"
                       /\ Val(f.result).resolved_symbol = Some(Index[w.entry][2])
                       /\ Val(f.result).message.strategy = StrategyOrder[w.strategy]

\* the empty query was resolved by Step 3 to the ticker of the first entry
\* of the index, the second entry having another ticker and a candidate of
\* the same score
C25_Witness ==
  \E c \in Callers :
    /\ calls[c].pc = "returned"
    /\ ReturnedAt(calls[c], "INDEX_FUZZY")
    /\ calls[c].query = QueryEmpty
    /\ Len(Index) >= 2
    /\ Index[1][2] # Index[2][2]
    /\ CandidateScore(<< >>, Index[1][1], 1) = CandidateScore(<< >>, Index[2][1], 1)
    /\ Val(calls[c].result).resolved_symbol = Some(Index[1][2])

\* C26: the empty string is never a key of the index: whatever rows have
\* been loaded, including rows whose company name is empty once trimmed or
\* stripped, neither the reference mapping nor the curated mapping has the
\* key "".
C26_NoEmptyKey ==
  /\ ~DictHas(DictOf(_stock_mapping), << >>)
  /\ ~DictHas(DictOf(_global_mapping), << >>)

\* C27: a query whose normalized form is the empty string, and that has
\* missed the ticker check and the direct lookups, is not resolved by the
\* fuzzy matcher: Step 3 falls through for it whatever the index holds.
C27_EmptyQueryNotFuzzyMatched ==
  \A c \in Callers :
    LET f == calls[c]
    IN  ( /\ Len(f.trace) >= 3
          /\ f.trace[3][1] = "INDEX_FUZZY"
          /\ normalize_input(f.query) = << >> ) =>
          f.trace[3][2] = "fallthrough"

\* C28: whenever resolve_symbol has resolved through the external search,
\* the resolved symbol is the symbol of the first element of the suggestion
\* list returned, the one of highest score; so it is one of the suggestions
\* returned.
C28_ResolvedIsTopSuggestion ==
  \A c \in Callers :
    LET f == calls[c]
    IN  ( /\ f.pc = "returned"
          /\ ReturnedAt(f, "EXTERNAL_SEARCH")
          /\ ~IsNone(Val(f.result).resolved_symbol) ) =>
          /\ Val(f.result).suggestions # << >>
          /\ Val(f.result).resolved_symbol = Some(Val(f.result).suggestions[1].symbol)

\* C29: the score of the token-containment strategy never exceeds 0.95 and
\* every score of the fuzzy scan lies in [0, 1]: when Step 3 has resolved a
\* query, the score of the winning candidate is at most 0.95 if containment
\* gave it, and within [0, 1] in any case.
C29_FuzzyScoreBounded ==
  \A c \in Callers :
    LET f == calls[c]
    IN  (f.pc = "returned" /\ ReturnedAt(f, "INDEX_FUZZY")) =>
          LET best == FuzzyScan(normalize_input(f.query), Index)
          IN  /\ best.type = "word_match" => ~ScoreGT(best.score, NinetyFiveHundredths)
              /\ ~ScoreGT(Zero, best.score)
              /\ ~ScoreGT(best.score, One)

\* C30: for the normalized query of a call and every entry of the index,
\* whenever the prefix strategy applies (the key starts with the query) the
\* token-containment strategy applies to the same entry with a score
\* strictly greater than 0.85; so the prefix strategy never sets the running
\* best, and no message of resolve_symbol reports the strategy
\* "start_match".
C30_PrefixNeverWins ==
  \A c \in Callers :
    LET f == calls[c]
    IN  /\ ( /\ Len(f.trace) >= 3
              /\ f.pc \in {"external_search", "returned"}
              /\ f.trace[Len(f.trace)][1] = "INDEX_FUZZY" ) =>
             LET nq    == normalize_input(f.query)
                 index == Index
             IN  \A i \in DOMAIN index :
                   StartsWith(index[i][1], nq) =>
                     /\ ~IsNone(CandidateScore(nq, index[i][1], 1))
                     /\ ScoreGT(Val(CandidateScore(nq, index[i][1], 1)), EightyFiveHundredths)
        /\ ~IsNone(f.result) => Val(f.result).message.strategy # "start_match"
        /\ \A k \in DOMAIN f.per_token : f.per_token[k].result.message.strategy # "start_match"

\* "appl" was resolved by Step 3 to the ticker of the key "apple", which
\* starts with it, and the message reports the containment strategy
C30_Witness ==
  \E c \in Callers :
    /\ calls[c].pc = "returned"
    /\ ReturnedAt(calls[c], "INDEX_FUZZY")
    /\ calls[c].query = QueryAppl
    /\ DictHas(Index, Lower(NameApple))
    /\ StartsWith(Lower(NameApple), normalize_input(QueryAppl))
    /\ Lower(NameApple) # normalize_input(QueryAppl)
    /\ Val(calls[c].result).resolved_symbol = Some(DictGet(Index, Lower(NameApple)))
    /\ Val(calls[c].result).message.strategy = "word_match"

====
